---- MODULE Spec2Model ----
(***************************************************************************)
(* CashCrawler: the transaction archive of the Caisse d'Epargne connector. *)
(*                                                                         *)
(* Two layers are modelled:                                                *)
(*   - lib/storage: sanitizeName, the archive file names, the freshness    *)
(*     guard hasTransactionsForToday, saveTransactionsCSV and mergeCSV;    *)
(*   - connectors/caisse-epargne/transactions: downloadTransactions with   *)
(*     createDownloadRequests and downloadAccountCSV, one action per       *)
(*     stretch of code between two awaited remote calls.                   *)
(* together with resolveAuthHeader (the authorization header of the run's  *)
(* own calls) and getBalances with the balance snapshots of lib/storage.   *)
(*                                                                         *)
(* Representation of the data:                                             *)
(*   - a date string "YYYY-MM-DD" is the tuple <<y, m, d>>;                *)
(*   - a text (account name, directory name) is a sequence of tokens,      *)
(*     each token one character or a run of characters of one class;       *)
(*   - a CSV line is [date, rest]: date is the first ';'-field split at    *)
(*     '/' with Number applied to each part (NaN for a non-numeric part),  *)
(*     rest tells lines with the same first field apart; a CSV content is  *)
(*     the sequence of its lines (the text split at "\n");                 *)
(*   - a directory is the sequence of its files in the order of their      *)
(*     modification times (the last one is the most recently modified);    *)
(*     a file is [name, content, mtime], mtime the day of the last write.  *)
(***************************************************************************)
EXTENDS Integers, Sequences, FiniteSets, TLC

VARIABLES
    clock,      \* the current day, as a day number (days since 1970-01-01)
    fs,         \* data/transactions/ce: directory name -> files
    lastCall,   \* the arguments of the last saveTransactionsCSV call
    apiData,    \* the items of the login response (augmentedSynthesisViews)
    pc,         \* where downloadTransactions stands
    fs0,        \* the file system when the run started
    operationItems,       \* lastDownloadData.operationIdResponseItem
    historyRequestItems,  \* the resource list, between its arrival and its use
    updatedItems,         \* the re-queried list, between its arrival and its use
    accountsWithIds,      \* the accounts handed to the download loop
    idx,                  \* the index of the running loop
    successCount,         \* createDownloadRequests: creations that succeeded
    downloadedCount,      \* downloadTransactions: accounts downloaded
    calls,      \* the remote calls and archive writes of the run, in order
    result,     \* what downloadTransactions returned or threw
    runNo,      \* the number of the invocation, counted within the day
    prevSavedAll, \* an earlier invocation of the day saved every listed account
    staleTargets, \* the target accounts that failed the reuse test of this run
    merge,      \* a call of mergeCSV: its arguments and what it returned
    auth,       \* the authorization header: what it is resolved from, and what was sent
    balances,   \* data/balances/ce and the getBalances invocations
    naming,     \* a start date, the file name made of it and what is parsed back
    order,      \* an archive, two exports, and the archive after both orders of saving
    digits      \* a call of cleanDigitMap: the OCR results and what it returned

\* ------------------------------------------------------------------------
\* Bounds and program constants
\* ------------------------------------------------------------------------

\* The day the model runs on (2024-03-20) and the longest CSV input.
Day0 == 19802
MaxRows == 2

\* SETTINGS.maxDaysBack
maxDaysBack == 792

\* A Number() result that is not a number.
NaN == -1

\* ------------------------------------------------------------------------
\* Date utilities
\* ------------------------------------------------------------------------

\* Date.prototype.toISOString().split("T")[0] of the day number n.
IsoDate(n) ==
    LET z   == n + 719468
        era == z \div 146097
        doe == z - era * 146097
        yoe == (doe - doe \div 1460 + doe \div 36524 - doe \div 146096) \div 365
        doy == doe - (365 * yoe + yoe \div 4 - yoe \div 100)
        mp  == (5 * doy + 2) \div 153
        d   == doy - (153 * mp + 2) \div 5 + 1
        m   == IF mp < 10 THEN mp + 3 ELSE mp - 9
        y   == yoe + era * 400 + (IF m <= 2 THEN 1 ELSE 0)
    IN  <<y, m, d>>

\* new Date(year, month - 1, day).getTime(), in days.
DateTime(y, m, d) ==
    LET yy  == IF m <= 2 THEN y - 1 ELSE y
        era == yy \div 400
        yoe == yy - era * 400
        mp  == IF m > 2 THEN m - 3 ELSE m + 9
        doy == (153 * mp + 2) \div 5 + d - 1
        doe == yoe * 365 + yoe \div 4 - yoe \div 100 + doy
    IN  era * 146097 + doe - 719468

getTodayDate(now) == IsoDate(now)

getDateDaysAgo(now, days) == IsoDate(now - days)

\* ------------------------------------------------------------------------
\* Names and paths
\* ------------------------------------------------------------------------

\* String.prototype.normalize("NFD") of one token: an accented letter
\* becomes the letter followed by its combining mark.
\* ("e+acute" is the precomposed letter, "+acute" the combining mark).
Nfd(tok) == IF tok = "e+acute" THEN <<"e", "+acute">> ELSE <<tok>>

IsCombiningMark(tok) == tok = "+acute"

IsSpace(tok) == tok = " "

\* [a-zA-Z0-9\s-]
IsKept(tok) == tok \in {"A", "B", "a", "b", "e", "Account", "account",
                        "1", "2", " ", "-"}

ToLower(tok) ==
    CASE tok = "A" -> "a"
      [] tok = "B" -> "b"
      [] tok = "Account" -> "account"
      [] OTHER -> tok

RECURSIVE Normalize(_)
Normalize(s) ==
    IF s = <<>> THEN <<>> ELSE Nfd(Head(s)) \o Normalize(Tail(s))

\* .replace(/\s+/g, "_"): every maximal run of white space becomes one "_".
RECURSIVE ReplaceSpaceRuns(_)
ReplaceSpaceRuns(s) ==
    IF s = <<>> THEN <<>>
    ELSE IF IsSpace(Head(s))
         THEN IF Len(s) > 1 /\ IsSpace(s[2])
              THEN ReplaceSpaceRuns(Tail(s))
              ELSE <<"_">> \o ReplaceSpaceRuns(Tail(s))
         ELSE <<Head(s)>> \o ReplaceSpaceRuns(Tail(s))

\* .trim(): applied last, when no white space is left, so it removes nothing.
RECURSIVE TrimLeft(_)
TrimLeft(s) ==
    IF s # <<>> /\ IsSpace(Head(s)) THEN TrimLeft(Tail(s)) ELSE s

RECURSIVE TrimRight(_)
TrimRight(s) ==
    IF s # <<>> /\ IsSpace(s[Len(s)])
    THEN TrimRight(SubSeq(s, 1, Len(s) - 1)) ELSE s

Trim(s) == TrimRight(TrimLeft(s))

sanitizeName(name) ==
    LET nfd      == Normalize(name)
        noAccent == SelectSeq(nfd, LAMBDA t : ~IsCombiningMark(t))
        noSpec   == SelectSeq(noAccent, IsKept)
        under    == ReplaceSpaceRuns(noSpec)
        lower    == [i \in 1..Len(under) |-> ToLower(under[i])]
    IN  Trim(lower)

\* path.join(getTransactionsDir(bankId), sanitizeName(accountName)); the bank
\* is always BANK_IDS.CAISSE_EPARGNE, so the directory name stands for the path.
getAccountDir(accountName) == sanitizeName(accountName)

\* `history-from-${startDate.replace(/-/g, "")}.csv`: the 8 digits are the
\* decimal numeral y*10000 + m*100 + d (4-digit years).
getTransactionsFilename(startDate) ==
    <<"history-from-", startDate[1] * 10000 + startDate[2] * 100 + startDate[3], ".csv">>

NoMatch == <<>>

\* No call made yet.
NoNaming == [startDate |-> <<>>, filename |-> <<>>, parsed |-> <<>>, called |-> FALSE]

\* parseTransactionsFilename with the slices of the month and the day swapped.
parseTransactionsFilename_DayFirst(filename) ==
    IF /\ filename[1] = "history-from-"
       /\ filename[3] = ".csv"
       /\ filename[2] >= 0 /\ filename[2] < 100000000
    THEN <<filename[2] \div 10000, filename[2] % 100, (filename[2] \div 100) % 100>>
    ELSE NoMatch

\* filename.match(/^history-from-(\d{8})\.csv$/) and the three slices.
parseTransactionsFilename(filename) ==
    IF /\ filename[1] = "history-from-"
       /\ filename[3] = ".csv"
       /\ filename[2] >= 0 /\ filename[2] < 100000000
    THEN <<filename[2] \div 10000, (filename[2] \div 100) % 100, filename[2] % 100>>
    ELSE NoMatch

\* ------------------------------------------------------------------------
\* The archive directory
\* ------------------------------------------------------------------------

NoFile == [found |-> FALSE]

getLatestTransactionsFile(fsv, accountName) ==
    LET accountDir == getAccountDir(accountName)
        files == SelectSeq(fsv[accountDir], LAMBDA f : f.name[3] = ".csv")
    IN  IF files = <<>> THEN NoFile
        ELSE LET latest == files[Len(files)]
                 parsed == parseTransactionsFilename(latest.name)
             IN  IF parsed = NoMatch THEN NoFile
                 ELSE [found |-> TRUE, startDate |-> parsed,
                       name |-> latest.name, lastModified |-> latest.mtime]

\* hasTransactionsForToday with "some account" in the place of "every account".
hasTransactionsForToday_Any(fsv, now, accountNames) ==
    \E i \in 1..Len(accountNames) :
        LET fileInfo == getLatestTransactionsFile(fsv, accountNames[i])
        IN  fileInfo.found /\ IsoDate(fileInfo.lastModified) = getTodayDate(now)

\* hasTransactionsForToday comparing with the day before.
hasTransactionsForToday_Yesterday(fsv, now, accountNames) ==
    \A i \in 1..Len(accountNames) :
        LET fileInfo == getLatestTransactionsFile(fsv, accountNames[i])
        IN  fileInfo.found /\ IsoDate(fileInfo.lastModified) = getTodayDate(now - 1)

\* The loop of hasTransactionsForToday over accountNames (a sequence).
hasTransactionsForToday(fsv, now, accountNames) ==
    \A i \in 1..Len(accountNames) :
        LET fileInfo == getLatestTransactionsFile(fsv, accountNames[i])
        IN  /\ fileInfo.found
            /\ IsoDate(fileInfo.lastModified) = getTodayDate(now)

\* ------------------------------------------------------------------------
\* mergeCSV
\* ------------------------------------------------------------------------

\* l.trim() is empty
IsBlank(line) == line.date = <<>> /\ line.rest = ""

BlankLine == [date |-> <<>>, rest |-> ""]

NonBlank(content) == SelectSeq(content, LAMBDA l : ~IsBlank(l))

\* parseFrenchDate(line.split(";")[0]).getTime(): NaN unless day, month and
\* year are all numbers.
parseFrenchDate(dateParts) ==
    IF Len(dateParts) >= 3 /\ \A i \in 1..3 : dateParts[i] # NaN
    THEN DateTime(dateParts[3], dateParts[2], dateParts[1])
    ELSE NaN

\* new Set(): the distinct lines in the order of their first insertion.
RECURSIVE Distinct(_)
Distinct(s) ==
    IF s = <<>> THEN <<>>
    ELSE LET front == Distinct(SubSeq(s, 1, Len(s) - 1))
             last  == s[Len(s)]
         IN  IF \E i \in 1..Len(front) : front[i] = last
             THEN front ELSE Append(front, last)

\* InsertDesc with the comparison turned round: the earliest line first.
RECURSIVE InsertDesc_Ascending(_, _)
InsertDesc_Ascending(sorted, line) ==
    IF sorted = <<>> THEN <<line>>
    ELSE IF parseFrenchDate(Head(sorted).date) <= parseFrenchDate(line.date)
         THEN <<Head(sorted)>> \o InsertDesc_Ascending(Tail(sorted), line)
         ELSE <<line>> \o sorted

\* Array.prototype.sort with (a, b) => time(b) - time(a) when every time is a
\* number: stable, most recent first.
RECURSIVE InsertDesc(_, _)
InsertDesc(sorted, line) ==
    IF sorted = <<>> THEN <<line>>
    ELSE IF parseFrenchDate(Head(sorted).date) >= parseFrenchDate(line.date)
         THEN <<Head(sorted)>> \o InsertDesc(Tail(sorted), line)
         ELSE <<line>> \o sorted

RECURSIVE SortDesc(_)
SortDesc(s) ==
    IF s = <<>> THEN <<>>
    ELSE InsertDesc(SortDesc(SubSeq(s, 1, Len(s) - 1)), s[Len(s)])

Orderings(s) ==
    { [i \in 1..Len(s) |-> s[p[i]]] :
        p \in { q \in [1..Len(s) -> 1..Len(s)] :
                  \A i, j \in 1..Len(s) : i # j => q[i] # q[j] } }

\* SortResults leaving out the lines whose time is NaN.
SortResults_DropsUnparsable(s) ==
    {SortDesc(SelectSeq(s, LAMBDA l : parseFrenchDate(l.date) # NaN))}

\* The results Array.prototype.sort may give: with a NaN time the comparator
\* returns NaN and is not a consistent comparison, and the order of the
\* result is implementation-defined (it is still a permutation).
SortResults(s) ==
    IF \A i \in 1..Len(s) : parseFrenchDate(s[i].date) # NaN
    THEN {SortDesc(s)}
    ELSE Orderings(s)

\* mergeCSV keeping the first line of the new content among the data lines.
mergeCSV_KeepsNewHeader(existing, newContent) ==
    LET existingLines == NonBlank(existing)
        newLines == NonBlank(newContent)
    IN  IF existingLines = <<>> THEN {newContent}
        ELSE IF newLines = <<>> THEN {existing}
        ELSE LET header  == existingLines[1]
                 allData == Distinct(Tail(existingLines) \o newLines)
             IN  { <<header>> \o sortedData : sortedData \in SortResults(allData) }

\* mergeCSV taking the header line from the new content.
mergeCSV_NewHeader(existing, newContent) ==
    LET existingLines == NonBlank(existing)
        newLines == NonBlank(newContent)
    IN  IF existingLines = <<>> THEN {newContent}
        ELSE IF newLines = <<>> THEN {existing}
        ELSE LET header  == newLines[1]
                 allData == Distinct(Tail(existingLines) \o Tail(newLines))
             IN  { <<header>> \o sortedData : sortedData \in SortResults(allData) }

\* mergeCSV keeping the new export only.
mergeCSV_DropsExisting(existing, newContent) == {newContent}

\* The contents mergeCSV(existing, newContent) may return.
mergeCSV(existing, newContent) ==
    LET existingLines == NonBlank(existing)
        newLines == NonBlank(newContent)
    IN  IF existingLines = <<>> THEN {newContent}
        ELSE IF newLines = <<>> THEN {existing}
        ELSE LET header  == existingLines[1]
                 allData == Distinct(Tail(existingLines) \o Tail(newLines))
             IN  { <<header>> \o sortedData : sortedData \in SortResults(allData) }

\* ------------------------------------------------------------------------
\* saveTransactionsCSV
\* ------------------------------------------------------------------------

FileNamed(dir, filename) ==
    SelectSeq(dir, LAMBDA f : f.name = filename)

\* fs.writeFileSync(filePath, content): the file becomes the most recently
\* modified one of its directory.
WriteFile(dir, filename, content, now) ==
    Append(SelectSeq(dir, LAMBDA f : f.name # filename),
           [name |-> filename, content |-> content, mtime |-> now])

\* saveTransactionsCSV naming the file after the earlier of the two start dates.
saveTransactionsCSV_Earliest(fsv, now, accountName, startDate, csvContent) ==
    LET accountDir == getAccountDir(accountName)
        existingFile == getLatestTransactionsFile(fsv, accountName)
        effectiveStartDate ==
            IF existingFile.found
               /\ DateTime(existingFile.startDate[1], existingFile.startDate[2],
                           existingFile.startDate[3])
                    <= DateTime(startDate[1], startDate[2], startDate[3])
            THEN existingFile.startDate ELSE startDate
        filename == getTransactionsFilename(effectiveStartDate)
        present == FileNamed(fsv[accountDir], filename)
    IN  IF present # <<>>
        THEN { [fsv EXCEPT ![accountDir] = WriteFile(@, filename, merged, now)] :
                 merged \in mergeCSV(present[1].content, csvContent) }
        ELSE { [fsv EXCEPT ![accountDir] = WriteFile(@, filename, csvContent, now)] }

\* saveTransactionsCSV writing a first export without its blank lines.
saveTransactionsCSV_TrimsNew(fsv, now, accountName, startDate, csvContent) ==
    LET accountDir == getAccountDir(accountName)
        existingFile == getLatestTransactionsFile(fsv, accountName)
        effectiveStartDate ==
            IF existingFile.found THEN existingFile.startDate ELSE startDate
        filename == getTransactionsFilename(effectiveStartDate)
        present == FileNamed(fsv[accountDir], filename)
    IN  IF present # <<>>
        THEN { [fsv EXCEPT ![accountDir] = WriteFile(@, filename, merged, now)] :
                 merged \in mergeCSV(present[1].content, csvContent) }
        ELSE { [fsv EXCEPT ![accountDir] =
                   WriteFile(@, filename, NonBlank(csvContent), now)] }

\* saveTransactionsCSV naming the file after the start date of the download.
saveTransactionsCSV_NewStart(fsv, now, accountName, startDate, csvContent) ==
    LET accountDir == getAccountDir(accountName)
        filename == getTransactionsFilename(startDate)
        present == FileNamed(fsv[accountDir], filename)
    IN  IF present # <<>>
        THEN { [fsv EXCEPT ![accountDir] = WriteFile(@, filename, merged, now)] :
                 merged \in mergeCSV(present[1].content, csvContent) }
        ELSE { [fsv EXCEPT ![accountDir] = WriteFile(@, filename, csvContent, now)] }

\* The file systems saveTransactionsCSV(bankId, accountName, startDate,
\* csvContent) may leave behind.
saveTransactionsCSV(fsv, now, accountName, startDate, csvContent) ==
    LET accountDir == getAccountDir(accountName)
        existingFile == getLatestTransactionsFile(fsv, accountName)
        effectiveStartDate ==
            IF existingFile.found THEN existingFile.startDate ELSE startDate
        filename == getTransactionsFilename(effectiveStartDate)
        present == FileNamed(fsv[accountDir], filename)
    IN  IF present # <<>>
        THEN { [fsv EXCEPT ![accountDir] = WriteFile(@, filename, merged, now)] :
                 merged \in mergeCSV(present[1].content, csvContent) }
        ELSE { [fsv EXCEPT ![accountDir] = WriteFile(@, filename, csvContent, now)] }

\* ------------------------------------------------------------------------
\* The data of the model
\* ------------------------------------------------------------------------

\* Account labels: NameA and NameA2 differ only in characters sanitizeName
\* removes or folds, NameB has a space and an accent.
NameA == <<"A">>
NameA2 == <<"a", "!">>
NameB == <<"B", " ", "e+acute">>

\* The fall-back names: `Account ${id}` (extractAccountsFromApiData) and
\* `Account_${id}` (downloadAccountCSV).
AccountSpace(id) == <<"Account", " ", id>>
AccountUnderscore(id) == <<"Account", "_", id>>

PfmIds == {"1", "2"}

AllNames ==
    {NameA, NameA2, NameB}
        \cup {AccountSpace(id) : id \in PfmIds}
        \cup {AccountUnderscore(id) : id \in PfmIds}

AllDirs == {getAccountDir(n) : n \in AllNames}

\* The window starts a caller may pass: the one of the day, one day earlier,
\* one day later.
StartDates ==
    {getDateDaysAgo(Day0, maxDaysBack + 1), getDateDaysAgo(Day0, maxDaysBack),
     getDateDaysAgo(Day0, maxDaysBack - 1)}

Header == [date |-> <<NaN>>, rest |-> "Date;Libelle;Montant"]
HeaderNew == [date |-> <<NaN>>, rest |-> "Date;Label;Amount"]
RowA == [date |-> <<20, 1, 2024>>, rest |-> "CB;-10"]
RowB == [date |-> <<5, 1, 2024>>, rest |-> "VIR;+50"]
RowC == [date |-> <<1, 1, 2024>>, rest |-> "PRLV;-7"]
RowBad == [date |-> <<NaN>>, rest |-> "solde"]

Rows == {RowA, RowB}

SeqsUpTo(S, n) == UNION { [1..k -> S] : k \in 0..n }

\* The exports a fetch may return: a header line and at most MaxRows data
\* lines (sorted or not, with or without repeated lines); the empty text; an
\* export with another header and a final newline; an export with a line
\* whose first field is no date.
CsvInputs ==
    { <<Header>> \o rows : rows \in SeqsUpTo(Rows, MaxRows) }
        \cup { <<BlankLine>>,
               <<HeaderNew, RowA, BlankLine>>,
               <<Header, RowBad, RowA>> }

NoCall == [accountName |-> <<>>, startDate |-> <<>>, csvContent |-> <<>>]

RowD == [date |-> <<20, 1, 2024>>, rest |-> "CB;-25"]

MergeRows == {RowA, RowB, RowD, RowBad}

\* The contents mergeCSV is given: a header line and at most MaxRows lines
\* (in any order, repeated or not, with or without a first field that is a
\* date); the empty text, a text of blank lines only, texts with blank
\* lines before, between and after the other lines, texts with a line of an
\* earlier day.
MergeInputs ==
    { <<h>> \o rows : h \in {Header, HeaderNew}, rows \in SeqsUpTo(MergeRows, MaxRows) }
        \cup { <<>>,
               <<BlankLine>>,
               <<Header, BlankLine, RowA, BlankLine>>,
               <<BlankLine, HeaderNew, RowB>>,
               <<Header, RowC>>,
               <<HeaderNew, RowC, RowB>> }

NoMerge == [existing |-> <<>>, newContent |-> <<>>, result |-> <<>>, called |-> FALSE]

\* ------------------------------------------------------------------------
\* Remote payloads
\* ------------------------------------------------------------------------

\* An absent identifier, name or request id (all falsy in the code).
Undefined == ""
NoName == <<>>
NoRequestId == 0

\* The shapes a pfmContractId field takes in the bank's responses: absent, a
\* string, a number, { id: ... } and { pfmContractId: ... }.
Absent == [kind |-> "undefined", id |-> Undefined]
Str(id) == [kind |-> "string", id |-> id]
Num(id) == [kind |-> "number", id |-> id]
Obj(id) == [kind |-> "object", id |-> id]
Nested(id) == [kind |-> "nested", id |-> id]

extractPfmContractId(identity) ==
    LET direct == identity.pfmContractId
        contractPfmId == identity.contractPfmId
    IN  IF direct.kind \in {"string", "number"} THEN direct.id
        ELSE IF direct.kind = "object" /\ direct.id # Undefined THEN direct.id
        ELSE IF contractPfmId.kind \in {"string", "number"} THEN contractPfmId.id
        ELSE IF contractPfmId.kind = "object" /\ contractPfmId.id # Undefined
             THEN contractPfmId.id
        ELSE Undefined

extractHistoryRequestPfmContractId(identity) ==
    LET direct == identity.pfmContractId
    IN  IF direct.kind = "nested" THEN direct.id
        ELSE IF direct.kind \in {"string", "number"} THEN direct.id
        ELSE IF direct.kind = "object" /\ direct.id # Undefined THEN direct.id
        ELSE Undefined

\* items.filter(contractPfmId).map({pfmContractId, accountName})
extractAccountsFromApiData(data) ==
    LET items == SelectSeq(data, LAMBDA item : item.contractPfmId # Undefined)
    IN  [i \in 1..Len(items) |->
            [pfmContractId |-> items[i].contractPfmId,
             accountName |-> IF items[i].contractLabel # NoName
                             THEN items[i].contractLabel
                             ELSE AccountSpace(items[i].contractPfmId)]]

\* new Map(accountsFromApi.map(a => [a.pfmContractId, a.accountName])).get:
\* the last entry of a key wins; NoName when the key is absent.
PfmToNameGet(accountsFromApi, pfmId) ==
    LET at == {i \in 1..Len(accountsFromApi) : accountsFromApi[i].pfmContractId = pfmId}
    IN  IF at = {} THEN NoName
        ELSE accountsFromApi[CHOOSE i \in at : \A j \in at : j <= i].accountName

AccountNames(accountsFromApi) ==
    [i \in 1..Len(accountsFromApi) |-> accountsFromApi[i].accountName]

\* operationItems.map(...): only pfmContractId and accountName are read later.
AccountsInfo(items, accountsFromApi) ==
    [i \in 1..Len(items) |->
        LET pfmId == extractPfmContractId(items[i])
        IN  [pfmContractId |-> pfmId,
             accountName |-> IF pfmId # Undefined
                             THEN PfmToNameGet(accountsFromApi, pfmId) ELSE NoName]]

\* new Set(accountsInfo.map(a => a.pfmContractId).filter(Boolean)), in
\* insertion order.
TargetPfmContractIds(accountsInfo) ==
    Distinct(SelectSeq([i \in 1..Len(accountsInfo) |-> accountsInfo[i].pfmContractId],
                       LAMBDA id : id # Undefined))

InSeq(x, s) == \E i \in 1..Len(s) : s[i] = x

\* HistoryByAccount where a later item of an account replaces an earlier one.
RECURSIVE HistoryByAccount_LastWins(_, _, _)
HistoryByAccount_LastWins(items, targets, map) ==
    IF items = <<>> THEN map
    ELSE LET item == Head(items)
             pfmId == extractHistoryRequestPfmContractId(item.identity)
         IN  IF pfmId # Undefined /\ InSeq(pfmId, targets)
             THEN HistoryByAccount_LastWins(Tail(items), targets,
                                            [k \in DOMAIN map \cup {pfmId} |->
                                                IF k = pfmId THEN item ELSE map[k]])
             ELSE HistoryByAccount_LastWins(Tail(items), targets, map)

\* The loop that fills historyByAccount (and updatedHistoryByAccount): the
\* map after the items of the list, one after the other.
RECURSIVE HistoryByAccount(_, _, _)
HistoryByAccount(items, targets, map) ==
    IF items = <<>> THEN map
    ELSE LET item == Head(items)
             pfmId == extractHistoryRequestPfmContractId(item.identity)
         IN  IF pfmId # Undefined /\ InSeq(pfmId, targets) /\ pfmId \notin DOMAIN map
             THEN HistoryByAccount(Tail(items), targets,
                                   [k \in DOMAIN map \cup {pfmId} |->
                                       IF k = pfmId THEN item ELSE map[k]])
             ELSE HistoryByAccount(Tail(items), targets, map)

EmptyMap == [k \in {} |-> 0]

\* allHaveCorrectDateRange without the test of endDate.
allHaveCorrectDateRange_StartOnly(targets, historyByAccount, startDate, today) ==
    \A i \in 1..Len(targets) :
        /\ targets[i] \in DOMAIN historyByAccount
        /\ historyByAccount[targets[i]].identity.startDate = startDate

\* allHaveCorrectDateRange with "some target" in the place of "every target".
allHaveCorrectDateRange_Some(targets, historyByAccount, startDate, today) ==
    \/ targets = <<>>
    \/ \E i \in 1..Len(targets) :
        /\ targets[i] \in DOMAIN historyByAccount
        /\ historyByAccount[targets[i]].identity.startDate = startDate
        /\ historyByAccount[targets[i]].identity.endDate = today

\* allHaveCorrectDateRange asking for at least one target.
allHaveCorrectDateRange_NeedsTarget(targets, historyByAccount, startDate, today) ==
    /\ targets # <<>>
    /\ \A i \in 1..Len(targets) :
        /\ targets[i] \in DOMAIN historyByAccount
        /\ historyByAccount[targets[i]].identity.startDate = startDate
        /\ historyByAccount[targets[i]].identity.endDate = today

allHaveCorrectDateRange(targets, historyByAccount, startDate, today) ==
    \A i \in 1..Len(targets) :
        /\ targets[i] \in DOMAIN historyByAccount
        /\ historyByAccount[targets[i]].identity.startDate = startDate
        /\ historyByAccount[targets[i]].identity.endDate = today

\* The AccountDownloadInfo built from a retained list item.
ToAccountInfo(item, accountsFromApi) ==
    LET extractedPfmId == extractHistoryRequestPfmContractId(item.identity)
    IN  [pfmContractId |-> extractedPfmId,
         accountName |-> IF extractedPfmId # Undefined
                         THEN PfmToNameGet(accountsFromApi, extractedPfmId) ELSE NoName,
         startDate |-> item.identity.startDate,
         endDate |-> item.identity.endDate,
         historyRequestId |-> item.historyRequestId]

\* AccountsFromHistory giving an account without resource the request id 1.
AccountsFromHistory_Fabricates(targets, historyByAccount, accountsFromApi) ==
    [i \in 1..Len(targets) |->
        IF targets[i] \in DOMAIN historyByAccount
        THEN ToAccountInfo(historyByAccount[targets[i]], accountsFromApi)
        ELSE [pfmContractId |-> targets[i],
              accountName |-> PfmToNameGet(accountsFromApi, targets[i]),
              startDate |-> <<>>, endDate |-> <<>>, historyRequestId |-> 1]]

\* Array.from(targetPfmContractIds).filter(has).map(...)
AccountsFromHistory(targets, historyByAccount, accountsFromApi) ==
    LET kept == SelectSeq(targets, LAMBDA id : id \in DOMAIN historyByAccount)
    IN  [i \in 1..Len(kept) |-> ToAccountInfo(historyByAccount[kept[i]], accountsFromApi)]

\* ------------------------------------------------------------------------
\* The authorization header
\* ------------------------------------------------------------------------

\* A stored value is [text, bearerMatch, parsed]: text is the string,
\* bearerMatch what value.match(/Bearer\s+[A-Za-z0-9._-]+/i) finds in it ("" for
\* no match), parsed what JSON.parse gives when the trimmed text starts with
\* "{" and parses (isObject), with the four fields the code reads.  A key is
\* [text, tokenLike]; tokenLike is /token|auth/i.test(key).
NotJson ==
    [isObject |-> FALSE, access_token |-> Absent, token |-> Absent,
     id_token |-> Absent, authorization |-> Absent]

JsonObject(access_token, token) ==
    [isObject |-> TRUE, access_token |-> access_token, token |-> token,
     id_token |-> Absent, authorization |-> Absent]

StorageEntry(key, tokenLike, text, bearerMatch, parsed) ==
    [key |-> [text |-> key, tokenLike |-> tokenLike],
     value |-> [text |-> text, bearerMatch |-> bearerMatch, parsed |-> parsed]]

\* The texts that begin with "Bearer" and white space (/^Bearer\s+/i).
BearerTexts == {"Bearer abc.def", "Bearer fromRequest", "Bearer captured"}

\* buildAuthorizationHeader, lines 52-56.
buildAuthorizationHeader(rawToken) ==
    IF rawToken = "" THEN ""
    ELSE IF rawToken \in BearerTexts THEN rawToken
    ELSE "Bearer " \o rawToken

\* a || b for two fields of a parsed object.
OrElse(a, b) == IF a.kind # "undefined" /\ a.id # "" THEN a ELSE b

NotFound == [found |-> FALSE, token |-> "", sourceKey |-> ""]

\* Lines 67-71: a bearer token in the value.
BearerRule(entry) ==
    IF entry.value.text # "" /\ entry.value.bearerMatch # ""
    THEN [found |-> TRUE, token |-> entry.value.bearerMatch, sourceKey |-> entry.key.text]
    ELSE NotFound

\* Lines 73-88: a token field of a JSON object.
JsonRule(entry) ==
    LET parsed == entry.value.parsed
        tokenCandidate ==
            OrElse(parsed.access_token,
                   OrElse(parsed.token, OrElse(parsed.id_token, parsed.authorization)))
    IN  IF /\ entry.value.text # ""
           /\ parsed.isObject
           /\ tokenCandidate.kind = "string"
           /\ Len(tokenCandidate.id) > 10
        THEN [found |-> TRUE, token |-> tokenCandidate.id, sourceKey |-> entry.key.text]
        ELSE NotFound

\* Lines 90-93: a long value under a key that reads like a token's.
KeyRule(entry) ==
    IF entry.value.text # "" /\ entry.key.tokenLike /\ Len(entry.value.text) > 10
    THEN [found |-> TRUE, token |-> entry.value.text, sourceKey |-> entry.key.text]
    ELSE NotFound

\* The body of the loop of extractTokenFromStorage, lines 65-93.
TokenOfEntry(entry) ==
    IF BearerRule(entry).found THEN BearerRule(entry)
    ELSE IF JsonRule(entry).found THEN JsonRule(entry)
    ELSE KeyRule(entry)

\* extractTokenFromStorage, lines 61-97: the first entry that passes a test.
RECURSIVE extractTokenFromStorage(_)
extractTokenFromStorage(entries) ==
    IF entries = <<>> THEN NotFound
    ELSE IF TokenOfEntry(Head(entries)).found THEN TokenOfEntry(Head(entries))
    ELSE extractTokenFromStorage(Tail(entries))

\* resolveAuthHeader that reads the storage first.
resolveAuthHeader_StorageFirst(fallbackAuthHeader, storageEntries) ==
    LET found == extractTokenFromStorage(storageEntries)
    IN  IF found.found
        THEN [header |-> buildAuthorizationHeader(found.token),
              source |-> "storage:" \o found.sourceKey]
        ELSE IF fallbackAuthHeader # ""
             THEN [header |-> fallbackAuthHeader, source |-> "request"]
        ELSE [header |-> "", source |-> "none"]

\* resolveAuthHeader, lines 102-136.
resolveAuthHeader(fallbackAuthHeader, storageEntries) ==
    IF fallbackAuthHeader # ""
    THEN [header |-> fallbackAuthHeader, source |-> "request"]
    ELSE LET found == extractTokenFromStorage(storageEntries)
         IN  IF ~found.found
             THEN [header |-> "", source |-> "none"]
             ELSE [header |-> buildAuthorizationHeader(found.token),
                   source |-> "storage:" \o found.sourceKey]

\* Lines 250-256: authHeaderFromRequest || capturedAuthHeader is handed to
\* resolveAuthHeader.
Resolved(a) ==
    LET r == resolveAuthHeader(IF a.request # "" THEN a.request ELSE a.captured, a.entries)
    IN  [a EXCEPT !.header = r.header, !.source = r.source, !.resolved = TRUE]

\* AuthorizationHeaders with the header set even when it is empty.
AuthorizationHeaders_Always(authHeader) == {<<"Authorization", authHeader>>}

\* ...(authHeader ? { Authorization: authHeader } : {}), lines 423, 458, 520, 550.
AuthorizationHeaders(authHeader) ==
    IF authHeader # "" THEN {<<"Authorization", authHeader>>} ELSE {}

\* A call made with the run's header is noted.
Sent(a, op) ==
    [a EXCEPT !.sent = Append(@, [op |-> op, headers |-> AuthorizationHeaders(a.header)])]

\* The storage entries: a text with a bearer token in it; an object with a
\* long access_token; an object whose access_token is short and whose token is
\* long; an object whose access_token is a number; a long value under a
\* token-like key; a short one; an empty one; a long value under another key.
EntryBearer ==
    StorageEntry("session", FALSE, "x Bearer abc.def", "Bearer abc.def", NotJson)
EntryJson ==
    StorageEntry("oidc.user", FALSE, "{access_token}", "",
                 JsonObject(Str("jsonaccesstoken"), Absent))
EntryJsonShortFirst ==
    StorageEntry("user", FALSE, "{access_token,token}", "",
                 JsonObject(Str("short"), Str("jsonlongtoken")))
EntryJsonNumber ==
    StorageEntry("authState", TRUE, "{access_token:1}", "",
                 JsonObject(Num("12345678901"), Absent))
EntryNamed == StorageEntry("authToken", TRUE, "rawstoredtoken", "", NotJson)
EntryNamedShort == StorageEntry("auth", TRUE, "abc", "", NotJson)
EntryEmpty == StorageEntry("token", TRUE, "", "", NotJson)
EntryPlain == StorageEntry("theme", FALSE, "dark-mode-theme", "", NotJson)

StorageEntries ==
    {EntryBearer, EntryJson, EntryJsonShortFirst, EntryJsonNumber, EntryNamed,
     EntryNamedShort, EntryEmpty, EntryPlain}

\* The longest storage.
MaxEntries == 2

AuthInput(request, captured, entries) ==
    [request |-> request, captured |-> captured, entries |-> entries,
     header |-> "", source |-> "none", resolved |-> FALSE, sent |-> <<>>]

AuthInputs ==
    { AuthInput(request, captured, entries) :
        request \in {"", "Bearer fromRequest"}, captured \in {"", "Bearer captured"},
        entries \in SeqsUpTo(StorageEntries, MaxEntries) }

\* The download request carried an authorization header.
RequestAuth == AuthInput("Bearer fromRequest", "", <<>>)

\* ------------------------------------------------------------------------
\* Balance snapshots
\* ------------------------------------------------------------------------

\* A snapshot file is [name, date]: name is the date of "YYYY-MM-DD.json",
\* date the date field of the snapshot in it.
SnapshotFile(day) == [name |-> getTodayDate(day), date |-> getTodayDate(day)]

\* files.sort().reverse()[0]: names of one length and one pattern sort as
\* their dates do.
Sorts(name1, name2) ==
    DateTime(name1[1], name1[2], name1[3]) <= DateTime(name2[1], name2[2], name2[3])

\* loadLatestBalances taking the first file of the sorted list.
loadLatestBalances_Oldest(files) ==
    IF files = {} THEN {}
    ELSE { CHOOSE f \in files : \A g \in files : Sorts(f.name, g.name) }

\* loadLatestBalances, lines 156-176: the snapshot of the last file by name
\* (a set with that snapshot, or the empty set for null).
loadLatestBalances(files) ==
    IF files = {} THEN {}
    ELSE { CHOOSE f \in files : \A g \in files : Sorts(g.name, f.name) }

\* hasBalancesForToday, lines 179-182.
hasBalancesForToday(files, now) ==
    \E latest \in loadLatestBalances(files) : latest.date = getTodayDate(now)

\* saveBalances, lines 140-154: the file of the day is written or rewritten.
saveBalances(files, now) ==
    { f \in files : f.name # getTodayDate(now) } \cup { SnapshotFile(now) }

NoBalances == [files |-> {}, invocations |-> 0, launches |-> 0, logins |-> 0,
               writes |-> 0, savedOn |-> 0]

\* ------------------------------------------------------------------------
\* The virtual keyboard: cleanDigitMap
\* ------------------------------------------------------------------------

\* The mark of an entry that needs resolution.
Unresolved == -1

\* String(value).split("").map(d => parseInt(d, 10)).filter(0 <= d <= 9), for
\* a value recognizeDigit returns (a non-negative integer): its decimal
\* digits.
RECURSIVE Candidates(_)
Candidates(value) ==
    IF value < 10 THEN <<value>>
    ELSE Append(Candidates(value \div 10), value % 10)

\* The values of a map, Unresolved left out.
PresentDigits(cleaned) == { cleaned[k] : k \in DOMAIN cleaned } \ {Unresolved}

\* Object.keys(cleaned): the integer keys in ascending order; the first key
\* of a set of keys.
FirstKey(keys) == CHOOSE k \in keys : \A j \in keys : k <= j

\* The first pass: an entry in 0..9 is kept, another is marked.
FirstPass(digitMap) ==
    [k \in DOMAIN digitMap |->
        IF digitMap[k] >= 0 /\ digitMap[k] <= 9 THEN digitMap[k] ELSE Unresolved]

\* Array.from({ length: 10 }, (_, i) => i).filter(i => !presentDigits.has(i)),
\* in ascending order.
RECURSIVE AscendingFrom(_, _)
AscendingFrom(i, present) ==
    IF i > 9 THEN <<>>
    ELSE IF i \in present THEN AscendingFrom(i + 1, present)
         ELSE <<i>> \o AscendingFrom(i + 1, present)

\* The matching loop from the i-th missing digit on: the digit goes to the
\* first marked button that has it among its candidates.
RECURSIVE MatchLoop(_, _, _, _)
MatchLoop(cleaned, digitMap, missingDigits, i) ==
    IF i > Len(missingDigits) THEN cleaned
    ELSE LET digit == missingDigits[i]
             keys == { k \in DOMAIN cleaned :
                         /\ cleaned[k] = Unresolved
                         /\ InSeq(digit, Candidates(digitMap[k])) }
         IN  IF keys = {} THEN MatchLoop(cleaned, digitMap, missingDigits, i + 1)
             ELSE MatchLoop([cleaned EXCEPT ![FirstKey(keys)] = digit],
                            digitMap, missingDigits, i + 1)

\* The fallback loop from the i-th missing digit on: a digit no button has
\* goes to the first button still marked.
RECURSIVE FallbackLoop(_, _, _)
FallbackLoop(cleaned, missingDigits, i) ==
    IF i > Len(missingDigits) THEN cleaned
    ELSE LET digit == missingDigits[i]
             keys == { k \in DOMAIN cleaned : cleaned[k] = Unresolved }
         IN  IF digit \in { cleaned[k] : k \in DOMAIN cleaned } \/ keys = {}
             THEN FallbackLoop(cleaned, missingDigits, i + 1)
             ELSE FallbackLoop([cleaned EXCEPT ![FirstKey(keys)] = digit],
                               missingDigits, i + 1)

\* cleanDigitMap without the fallback loop.
cleanDigitMap_NoFallback(digitMap) ==
    LET marked == FirstPass(digitMap)
        missingDigits == AscendingFrom(0, PresentDigits(marked))
    IN  MatchLoop(marked, digitMap, missingDigits, 1)

cleanDigitMap(digitMap) ==
    LET marked == FirstPass(digitMap)
        missingDigits == AscendingFrom(0, PresentDigits(marked))
    IN  FallbackLoop(MatchLoop(marked, digitMap, missingDigits, 1), missingDigits, 1)

NoDigits == [digitMap |-> <<>>, cleaned |-> <<>>, called |-> FALSE]

\* ------------------------------------------------------------------------
\* Two exports saved in either order
\* ------------------------------------------------------------------------

NoOrder == [existing |-> <<>>, first |-> <<>>, second |-> <<>>,
            oneWay |-> <<>>, otherWay |-> <<>>, called |-> FALSE]

\* ------------------------------------------------------------------------
\* The record of a run
\* ------------------------------------------------------------------------

NoDate == <<>>

Call(op, pfm, req, startDate, endDate, ok, name) ==
    [op |-> op, pfm |-> pfm, req |-> req, startDate |-> startDate,
     endDate |-> endDate, ok |-> ok, name |-> name]

MetaCall == Call("meta", Undefined, NoRequestId, NoDate, NoDate, TRUE, NoName)
ListCall == Call("list", Undefined, NoRequestId, NoDate, NoDate, TRUE, NoName)
WaitCall == Call("wait", Undefined, NoRequestId, NoDate, NoDate, TRUE, NoName)
CreateCall(pfm, startDate, endDate, ok) ==
    Call("create", pfm, NoRequestId, startDate, endDate, ok, NoName)
PrepareCall(account, ok) ==
    Call("prepare", account.pfmContractId, account.historyRequestId,
         account.startDate, account.endDate, ok, NoName)
FetchCall(account, ok) ==
    Call("fetch", account.pfmContractId, account.historyRequestId,
         account.startDate, account.endDate, ok, NoName)
SaveRecord(account, name) ==
    Call("save", account.pfmContractId, account.historyRequestId,
         account.startDate, account.endDate, TRUE, name)

CallsOf(op) == SelectSeq(calls, LAMBDA c : c.op = op)

\* ------------------------------------------------------------------------
\* Inputs of a run
\* ------------------------------------------------------------------------

\* The longest list of download-request resources.
MaxList == 2

ApiItem(id, label) == [contractPfmId |-> id, contractLabel |-> label]

\* The login responses: two accounts; one account; two accounts whose labels
\* give the same directory; an account without label and an item without
\* contract identifier.
Listings ==
    { <<ApiItem("1", NameA), ApiItem("2", NameB)>>,
      <<ApiItem("1", NameA)>>,
      <<ApiItem("1", NameA), ApiItem("2", NameA2)>>,
      <<ApiItem("1", NoName), ApiItem(Undefined, NameB)>> }

\* The items of lastDownloadHistoryViews: account 1 (a string), account 2
\* (contractPfmId: { id }), an item without identifier.
Meta1 == [pfmContractId |-> Str("1"), contractPfmId |-> Absent]
Meta2 == [pfmContractId |-> Absent, contractPfmId |-> Obj("2")]
MetaNone == [pfmContractId |-> Absent, contractPfmId |-> Absent]

\* The lastDownloadHistoryViews responses: no item, one account, both
\* accounts in either order, an account twice, items without identifier.
MetaInputs ==
    { <<>>, <<Meta1>>, <<Meta2>>, <<Meta1, Meta2>>, <<Meta2, Meta1>>,
      <<Meta1, Meta1>>, <<MetaNone, Meta1>>, <<MetaNone>> }

Today == getTodayDate(Day0)
WindowStart == getDateDaysAgo(Day0, maxDaysBack)

\* The kinds of download-request resources a list holds: for account 1 the
\* window of the day, a window that ends a day early, and the window of the
\* day without request id; for account 2 the window of the day and a window
\* that starts a day late.
Current1 == [pfm |-> Nested("1"), startDate |-> WindowStart, endDate |-> Today, id |-> TRUE]
Lagging1 == [pfm |-> Nested("1"), startDate |-> WindowStart,
             endDate |-> getTodayDate(Day0 - 1), id |-> TRUE]
Unnumbered1 == [pfm |-> Nested("1"), startDate |-> WindowStart, endDate |-> Today, id |-> FALSE]
Current2 == [pfm |-> Str("2"), startDate |-> WindowStart, endDate |-> Today, id |-> TRUE]
Shorter2 == [pfm |-> Str("2"), startDate |-> getDateDaysAgo(Day0, maxDaysBack - 1),
             endDate |-> Today, id |-> TRUE]

ResourceKinds == {Current1, Lagging1, Unnumbered1, Current2, Shorter2}

\* A list item; its request id is its place in the list.
HistoryItem(kind, i) ==
    [identity |-> [pfmContractId |-> kind.pfm, startDate |-> kind.startDate,
                   endDate |-> kind.endDate],
     historyRequestId |-> IF kind.id THEN i ELSE NoRequestId]

ListInputs ==
    { [i \in 1..Len(kinds) |-> HistoryItem(kinds[i], i)] :
        kinds \in SeqsUpTo(ResourceKinds, MaxList) }

\* The exports a fetch returns in a run.
RunExports == { <<Header, RowA>>, <<Header, RowB, RowA>> }

\* ------------------------------------------------------------------------
\* downloadTransactions
\* ------------------------------------------------------------------------

runVars == <<apiData, pc, fs0, operationItems, historyRequestItems, updatedItems,
             accountsWithIds, idx, successCount, downloadedCount, calls, result,
             runNo, prevSavedAll, staleTargets>>

vars == <<clock, fs, lastCall, runVars, merge, auth, balances, naming, order, digits>>

accountsFromApi == extractAccountsFromApiData(apiData)

accountsInfo == AccountsInfo(operationItems, accountsFromApi)

\* targetPfmContractIds taken from the accounts of the login listing.
targetPfmContractIds_FromListing ==
    Distinct(SelectSeq([i \in 1..Len(accountsFromApi) |-> accountsFromApi[i].pfmContractId],
                       LAMBDA id : id # Undefined))

targetPfmContractIds == TargetPfmContractIds(accountsInfo)

\* StartRun without the guard.
StartRun_Unguarded ==
    /\ pc = "idle"
    /\ fs0' = fs
    /\ pc' = "lastDownload"
    /\ UNCHANGED <<clock, fs, lastCall, apiData, operationItems, historyRequestItems,
                   updatedItems, accountsWithIds, idx, successCount, downloadedCount,
                   calls, result, runNo, prevSavedAll, staleTargets, merge, auth, balances, naming, order, digits>>

\* Lines 209-245: the dates, the guard, the click on the download button.
StartRun ==
    /\ pc = "idle"
    /\ fs0' = fs
    /\ IF hasTransactionsForToday(fs, clock, AccountNames(accountsFromApi))
       THEN pc' = "done" /\ result' = "false"
       ELSE pc' = "lastDownload" /\ UNCHANGED result
    /\ UNCHANGED <<clock, fs, lastCall, apiData, operationItems, historyRequestItems,
                   updatedItems, accountsWithIds, idx, successCount, downloadedCount,
                   calls, runNo, prevSavedAll, staleTargets, merge, auth, balances, naming, order, digits>>

\* Lines 247-270: the lastDownloadHistoryViews response; the click on the
\* history tab.
LastDownloadResponse(metas) ==
    /\ pc = "lastDownload"
    /\ \E items \in metas : operationItems' = items
    /\ calls' = Append(calls, MetaCall)
    /\ pc' = "historyRequests"
    /\ auth' = Resolved(auth)
    /\ UNCHANGED <<clock, fs, lastCall, apiData, fs0, historyRequestItems, updatedItems,
                   accountsWithIds, idx, successCount, downloadedCount, result,
                   runNo, prevSavedAll, staleTargets, merge, balances, naming, order, digits>>

\* Lines 271-274: the historyRequests response.
HistoryRequestsResponse(lists) ==
    /\ pc = "historyRequests"
    /\ \E items \in lists : historyRequestItems' = items
    /\ calls' = Append(calls, ListCall)
    /\ pc' = "decide"
    /\ UNCHANGED <<clock, fs, lastCall, apiData, fs0, operationItems, updatedItems,
                   accountsWithIds, idx, successCount, downloadedCount, result,
                   runNo, prevSavedAll, staleTargets, merge, auth, balances, naming, order, digits>>

\* Lines 276-348: the target accounts, the retained resources, the reuse
\* test and its two branches (up to the first create-request).
Decide ==
    /\ pc = "decide"
    /\ LET startDate == getDateDaysAgo(clock, maxDaysBack)
           today == getTodayDate(clock)
           historyByAccount ==
               HistoryByAccount(historyRequestItems, targetPfmContractIds, EmptyMap)
       IN  IF allHaveCorrectDateRange(targetPfmContractIds, historyByAccount,
                                      startDate, today)
           THEN /\ accountsWithIds' =
                     AccountsFromHistory(targetPfmContractIds, historyByAccount,
                                         accountsFromApi)
                /\ pc' = "download"
           ELSE /\ accountsWithIds' = <<>>
                /\ pc' = "create"
    /\ idx' = 1
    /\ successCount' = 0
    /\ downloadedCount' = 0
    /\ staleTargets' =
         { pfmId \in PfmIds :
             /\ InSeq(pfmId, targetPfmContractIds)
             /\ ~allHaveCorrectDateRange(<<pfmId>>,
                     HistoryByAccount(historyRequestItems, targetPfmContractIds, EmptyMap),
                     getDateDaysAgo(clock, maxDaysBack), getTodayDate(clock)) }
    /\ historyRequestItems' = <<>>
    /\ UNCHANGED <<clock, fs, lastCall, apiData, fs0, operationItems, updatedItems,
                   calls, result, runNo, prevSavedAll, merge, auth, balances, naming, order, digits>>

\* Lines 395-435: one turn of the create loop for an account with an
\* identifier: the POST succeeds, answers another status, or throws.
CreateRequest ==
    /\ auth' = Sent(auth, "create")
    /\ pc = "create"
    /\ idx <= Len(accountsInfo)
    /\ accountsInfo[idx].pfmContractId # Undefined
    /\ \E outcome \in {"ok", "status", "throw"} :
        /\ calls' = Append(calls,
                           CreateCall(accountsInfo[idx].pfmContractId,
                                      getDateDaysAgo(clock, maxDaysBack),
                                      getTodayDate(clock), outcome = "ok"))
        /\ successCount' = IF outcome = "ok" THEN successCount + 1 ELSE successCount
    /\ idx' = idx + 1
    /\ UNCHANGED <<clock, fs, lastCall, apiData, pc, fs0, operationItems,
                   historyRequestItems, updatedItems, accountsWithIds, downloadedCount,
                   result, runNo, prevSavedAll, staleTargets, merge, balances, naming, order, digits>>

\* Lines 396-397: an account without identifier is passed over.
SkipCreate ==
    /\ pc = "create"
    /\ idx <= Len(accountsInfo)
    /\ accountsInfo[idx].pfmContractId = Undefined
    /\ idx' = idx + 1
    /\ UNCHANGED <<clock, fs, lastCall, apiData, pc, fs0, operationItems,
                   historyRequestItems, updatedItems, accountsWithIds, successCount,
                   downloadedCount, calls, result, runNo, prevSavedAll, staleTargets, merge, auth, balances, naming, order, digits>>

\* CreateLoopEnd going on to the second list query without the wait.
CreateLoopEnd_SkipsWait ==
    /\ pc = "create"
    /\ idx > Len(accountsInfo)
    /\ IF successCount = 0
       THEN pc' = "fatal" /\ result' = "error"
       ELSE pc' = "requery" /\ UNCHANGED result
    /\ UNCHANGED <<clock, fs, lastCall, apiData, fs0, operationItems,
                   historyRequestItems, updatedItems, accountsWithIds, idx, successCount,
                   downloadedCount, calls, runNo, prevSavedAll, staleTargets, merge, auth, balances, naming, order, digits>>

\* CreateLoopEnd without the test of successCount.
CreateLoopEnd_NoAbort ==
    /\ pc = "create"
    /\ idx > Len(accountsInfo)
    /\ pc' = "waiting"
    /\ UNCHANGED <<clock, fs, lastCall, apiData, fs0, operationItems,
                   historyRequestItems, updatedItems, accountsWithIds, idx, successCount,
                   downloadedCount, calls, result, runNo, prevSavedAll, staleTargets, merge, auth, balances, naming, order, digits>>

\* Lines 438-448: after the loop, the fatal error or the preparation wait.
CreateLoopEnd ==
    /\ pc = "create"
    /\ idx > Len(accountsInfo)
    /\ IF successCount = 0
       THEN pc' = "fatal" /\ result' = "error"
       ELSE pc' = "waiting" /\ UNCHANGED result
    /\ UNCHANGED <<clock, fs, lastCall, apiData, fs0, operationItems,
                   historyRequestItems, updatedItems, accountsWithIds, idx, successCount,
                   downloadedCount, calls, runNo, prevSavedAll, staleTargets, merge, auth, balances, naming, order, digits>>

\* Line 448: page.waitForTimeout(SETTINGS.downloadWaitTime) elapses.
PreparationWait ==
    /\ pc = "waiting"
    /\ calls' = Append(calls, WaitCall)
    /\ pc' = "requery"
    /\ UNCHANGED <<clock, fs, lastCall, apiData, fs0, operationItems,
                   historyRequestItems, updatedItems, accountsWithIds, idx, successCount,
                   downloadedCount, result, runNo, prevSavedAll, staleTargets, merge, auth, balances, naming, order, digits>>

\* Lines 451-462: the list is fetched again.
UpdatedResponse(lists) ==
    /\ auth' = Sent(auth, "list")
    /\ pc = "requery"
    /\ \E items \in lists : updatedItems' = items
    /\ calls' = Append(calls, ListCall)
    /\ pc' = "build"
    /\ UNCHANGED <<clock, fs, lastCall, apiData, fs0, operationItems,
                   historyRequestItems, accountsWithIds, idx, successCount,
                   downloadedCount, result, runNo, prevSavedAll, staleTargets, merge, balances, naming, order, digits>>

\* Lines 463-491: the accounts createDownloadRequests returns.
BuildAccounts ==
    /\ pc = "build"
    /\ accountsWithIds' =
         AccountsFromHistory(targetPfmContractIds,
                             HistoryByAccount(updatedItems, targetPfmContractIds, EmptyMap),
                             accountsFromApi)
    /\ updatedItems' = <<>>
    /\ idx' = 1
    /\ pc' = "download"
    /\ UNCHANGED <<clock, fs, lastCall, apiData, fs0, operationItems,
                   historyRequestItems, successCount, downloadedCount, calls, result,
                   runNo, prevSavedAll, staleTargets, merge, auth, balances, naming, order, digits>>

\* Lines 355-358: an account without request id or identifier is passed over.
SkipAccount ==
    /\ pc = "download"
    /\ idx <= Len(accountsWithIds)
    /\ \/ accountsWithIds[idx].historyRequestId = NoRequestId
       \/ accountsWithIds[idx].pfmContractId = Undefined
    /\ idx' = idx + 1
    /\ UNCHANGED <<clock, fs, lastCall, apiData, pc, fs0, operationItems,
                   historyRequestItems, updatedItems, accountsWithIds, successCount,
                   downloadedCount, calls, result, runNo, prevSavedAll, staleTargets, merge, auth, balances, naming, order, digits>>

\* PrepareDownload where a failure is thrown out of the loop.
PrepareDownload_Aborts ==
    /\ auth' = Sent(auth, "prepare")
    /\ pc = "download"
    /\ idx <= Len(accountsWithIds)
    /\ accountsWithIds[idx].historyRequestId # NoRequestId
    /\ accountsWithIds[idx].pfmContractId # Undefined
    /\ \E outcome \in {"throw", "notJson", "noUrl", "url"} :
        /\ calls' = Append(calls, PrepareCall(accountsWithIds[idx], outcome = "url"))
        /\ IF outcome = "url"
           THEN pc' = "fetch" /\ UNCHANGED result
           ELSE pc' = "fatal" /\ result' = "error"
    /\ UNCHANGED <<clock, fs, lastCall, apiData, fs0, operationItems,
                   historyRequestItems, updatedItems, accountsWithIds, idx, successCount,
                   downloadedCount, runNo, prevSavedAll, staleTargets, merge, balances, naming, order, digits>>

\* downloadAccountCSV, lines 505-541: the prepareDownload POST throws, answers
\* something that is no JSON, a JSON without downloadUrl, or a downloadUrl.
PrepareDownload ==
    /\ auth' = Sent(auth, "prepare")
    /\ pc = "download"
    /\ idx <= Len(accountsWithIds)
    /\ accountsWithIds[idx].historyRequestId # NoRequestId
    /\ accountsWithIds[idx].pfmContractId # Undefined
    /\ \E outcome \in {"throw", "notJson", "noUrl", "url"} :
        /\ calls' = Append(calls, PrepareCall(accountsWithIds[idx], outcome = "url"))
        /\ IF outcome = "url"
           THEN pc' = "fetch" /\ UNCHANGED idx
           ELSE pc' = "download" /\ idx' = idx + 1
    /\ UNCHANGED <<clock, fs, lastCall, apiData, fs0, operationItems,
                   historyRequestItems, updatedItems, accountsWithIds, successCount,
                   downloadedCount, result, runNo, prevSavedAll, staleTargets, merge, balances, naming, order, digits>>

\* FetchFails leaving an empty file behind.
FetchFails_StillWrites ==
    /\ auth' = Sent(auth, "fetch")
    /\ pc = "fetch"
    /\ calls' = Append(calls, FetchCall(accountsWithIds[idx], FALSE))
    /\ fs' = [fs EXCEPT ![getAccountDir(accountsWithIds[idx].accountName)] =
                 WriteFile(@, getTransactionsFilename(getDateDaysAgo(clock, maxDaysBack)),
                           <<>>, clock)]
    /\ idx' = idx + 1
    /\ pc' = "download"
    /\ UNCHANGED <<clock, lastCall, apiData, fs0, operationItems,
                   historyRequestItems, updatedItems, accountsWithIds, successCount,
                   downloadedCount, result, runNo, prevSavedAll, staleTargets, merge, balances, naming, order, digits>>

\* FetchFails where the GET is tried again for the same account.
FetchFails_Retries ==
    /\ auth' = Sent(auth, "fetch")
    /\ pc = "fetch"
    /\ calls' = Append(calls, FetchCall(accountsWithIds[idx], FALSE))
    /\ UNCHANGED <<clock, fs, lastCall, apiData, pc, fs0, operationItems,
                   historyRequestItems, updatedItems, accountsWithIds, idx, successCount,
                   downloadedCount, result, runNo, prevSavedAll, staleTargets, merge, balances, naming, order, digits>>

\* downloadAccountCSV, lines 543-557: the GET of the download URL throws or
\* answers a status that is not ok.
FetchFails ==
    /\ auth' = Sent(auth, "fetch")
    /\ pc = "fetch"
    /\ calls' = Append(calls, FetchCall(accountsWithIds[idx], FALSE))
    /\ idx' = idx + 1
    /\ pc' = "download"
    /\ UNCHANGED <<clock, fs, lastCall, apiData, fs0, operationItems,
                   historyRequestItems, updatedItems, accountsWithIds, successCount,
                   downloadedCount, result, runNo, prevSavedAll, staleTargets, merge, balances, naming, order, digits>>

\* downloadAccountCSV, lines 543-566, and line 367: the GET answers the
\* export, which is saved.
FetchAndSave(exports) ==
    /\ auth' = Sent(auth, "fetch")
    /\ pc = "fetch"
    /\ LET account == accountsWithIds[idx]
           accountName == IF account.accountName # NoName THEN account.accountName
                          ELSE AccountUnderscore(account.pfmContractId)
           startDate == getDateDaysAgo(clock, maxDaysBack)
       IN  \E csvContent \in exports :
             \E saved \in saveTransactionsCSV(fs, clock, accountName, startDate, csvContent) :
                /\ fs' = saved
                /\ lastCall' = [accountName |-> accountName, startDate |-> startDate,
                                csvContent |-> csvContent]
                /\ calls' = calls \o <<FetchCall(account, TRUE), SaveRecord(account, accountName)>>
    /\ downloadedCount' = downloadedCount + 1
    /\ idx' = idx + 1
    /\ pc' = "download"
    /\ UNCHANGED <<clock, apiData, fs0, operationItems, historyRequestItems,
                   updatedItems, accountsWithIds, successCount, result, runNo,
                   prevSavedAll, staleTargets, merge, balances, naming, order, digits>>

\* Lines 370-371: the loop is over, downloadTransactions returns true.
Finish ==
    /\ pc = "download"
    /\ idx > Len(accountsWithIds)
    /\ pc' = "done"
    /\ result' = "true"
    /\ UNCHANGED <<clock, fs, lastCall, apiData, fs0, operationItems,
                   historyRequestItems, updatedItems, accountsWithIds, idx, successCount,
                   downloadedCount, calls, runNo, prevSavedAll, staleTargets, merge, auth, balances, naming, order, digits>>

Run(metas, lists, exports) ==
    \/ StartRun
    \/ LastDownloadResponse(metas)
    \/ HistoryRequestsResponse(lists)
    \/ Decide
    \/ CreateRequest
    \/ SkipCreate
    \/ CreateLoopEnd
    \/ PreparationWait
    \/ UpdatedResponse(lists)
    \/ BuildAccounts
    \/ SkipAccount
    \/ PrepareDownload
    \/ FetchFails
    \/ FetchAndSave(exports)
    \/ Finish

\* The invocations of a day.
MaxRuns == 2

\* Every account of the login listing had its export saved by this run.
SavedAll ==
    \A i \in 1..Len(accountsFromApi) :
        \E k \in 1..Len(calls) :
            /\ calls[k].op = "save"
            /\ getAccountDir(calls[k].name) = getAccountDir(accountsFromApi[i].accountName)

\* The command is run again on the same day, by a new session that lists
\* the same accounts; the archive directories are what the run before left.
NewRun ==
    /\ pc \in {"done", "fatal"}
    /\ runNo < MaxRuns
    /\ runNo' = runNo + 1
    /\ prevSavedAll' = (prevSavedAll \/ SavedAll)
    /\ staleTargets' = {}
    /\ pc' = "idle"
    /\ fs0' = fs
    /\ operationItems' = <<>>
    /\ accountsWithIds' = <<>>
    /\ idx' = 1
    /\ successCount' = 0
    /\ downloadedCount' = 0
    /\ calls' = <<>>
    /\ result' = "none"
    /\ auth' = [auth EXCEPT !.header = "", !.source = "none", !.resolved = FALSE, !.sent = <<>>]
    /\ UNCHANGED <<clock, fs, lastCall, apiData, historyRequestItems, updatedItems, merge, balances, naming, order, digits>>

\* An archive as an earlier run left it.
InitArchive(startDate, content, day) ==
    <<[name |-> getTransactionsFilename(startDate), content |-> content, mtime |-> day]>>

OldArchive == InitArchive(getDateDaysAgo(Day0 - 1, maxDaysBack), <<Header, RowB>>, Day0 - 1)
FreshArchive == InitArchive(getDateDaysAgo(Day0 - 1, maxDaysBack), <<Header, RowB>>, Day0)

IdleRun ==
    /\ pc = "idle"
    /\ fs0 = fs
    /\ operationItems = <<>>
    /\ historyRequestItems = <<>>
    /\ updatedItems = <<>>
    /\ accountsWithIds = <<>>
    /\ idx = 1
    /\ successCount = 0
    /\ downloadedCount = 0
    /\ calls = <<>>
    /\ result = "none"
    /\ runNo = 1
    /\ prevSavedAll = FALSE
    /\ staleTargets = {}

\* A day's first invocation: the archives of earlier days, or of an earlier
\* invocation of the day, are in place for some accounts.
Init ==
    /\ clock = Day0
    /\ \E a \in {<<>>, OldArchive, FreshArchive}, b \in {OldArchive, FreshArchive} :
         fs = [d \in AllDirs |->
                 IF d = getAccountDir(NameA) THEN a
                 ELSE IF d = getAccountDir(NameB) THEN b
                 ELSE <<>>]
    /\ lastCall = NoCall
    /\ merge = NoMerge
    /\ auth = RequestAuth
    /\ balances = NoBalances
    /\ naming = NoNaming
    /\ order = NoOrder
    /\ digits = NoDigits
    /\ apiData \in Listings
    /\ IdleRun

Next == Run(MetaInputs, ListInputs, RunExports)

Spec == Init /\ [][Next]_vars

\* One run in which every call returns.  The code is sequential and awaits
\* each call in turn, so a step that can be taken is taken: weak fairness of
\* Next.  Next has a step in every state but those where the run has ended
\* (each pc value has an action, and the guards of the actions of the two
\* loops cover every idx), so WF_vars(Next) is written with ENABLED
\* <<Next>>_vars spelled out as "the run has not ended".  The archives are
\* of the day before: the run passes the guard.
InitLive ==
    /\ clock = Day0
    /\ fs = [d \in AllDirs |->
               IF d = getAccountDir(NameB) THEN OldArchive ELSE <<>>]
    /\ lastCall = NoCall
    /\ merge = NoMerge
    /\ auth = RequestAuth
    /\ balances = NoBalances
    /\ naming = NoNaming
    /\ order = NoOrder
    /\ digits = NoDigits
    /\ apiData \in Listings
    /\ IdleRun

EveryCallReturns == []<>(pc \in {"done", "fatal"}) \/ []<><<Next>>_vars

SpecLive == InitLive /\ [][Next]_vars /\ EveryCallReturns

\* ------------------------------------------------------------------------
\* The invocations of one day, one after the other
\* ------------------------------------------------------------------------

DayListings == { <<ApiItem("1", NameA), ApiItem("2", NameB)>>, <<ApiItem("1", NameA)>> }

DayMetas == { <<Meta1, Meta2>>, <<MetaNone, Meta1>> }

DayLists ==
    { <<>>,
      <<HistoryItem(Current1, 1)>>,
      <<HistoryItem(Current1, 1), HistoryItem(Current2, 2)>>,
      <<HistoryItem(Lagging1, 1), HistoryItem(Current2, 2)>>,
      <<HistoryItem(Unnumbered1, 1), HistoryItem(Current2, 2)>> }

DayExports == { <<Header, RowA>> }

\* A header on the download request; no header and nothing in the storage
\* that passes a test; no header and a token in the storage.
DayAuths ==
    { RequestAuth,
      AuthInput("", "", <<EntryPlain, EntryNamedShort>>),
      AuthInput("", "", <<EntryNamed>>) }

InitDay ==
    /\ clock = Day0
    /\ \E a \in {<<>>, OldArchive, FreshArchive}, b \in {OldArchive, FreshArchive} :
         fs = [d \in AllDirs |->
                 IF d = getAccountDir(NameA) THEN a
                 ELSE IF d = getAccountDir(NameB) THEN b
                 ELSE <<>>]
    /\ lastCall = NoCall
    /\ merge = NoMerge
    /\ auth \in DayAuths
    /\ balances = NoBalances
    /\ naming = NoNaming
    /\ order = NoOrder
    /\ digits = NoDigits
    /\ apiData \in DayListings
    /\ IdleRun

NextDay ==
    \/ Run(DayMetas, DayLists, DayExports)
    \/ NewRun

SpecDay == InitDay /\ [][NextDay]_vars

\* ------------------------------------------------------------------------
\* The storage layer alone: any sequence of saveTransactionsCSV calls
\* ------------------------------------------------------------------------

SaveNames == {NameA2}

InitSave ==
    /\ clock = Day0
    /\ \E a \in {<<>>} \cup { InitArchive(s, <<Header, RowB>>, Day0 - 1) : s \in StartDates } :
         fs = [d \in AllDirs |->
                 IF d = getAccountDir(NameA) THEN a
                 ELSE IF d = getAccountDir(NameB)
                      THEN InitArchive(getDateDaysAgo(Day0, maxDaysBack), <<Header, RowC>>, Day0 - 1)
                      ELSE <<>>]
    /\ lastCall = NoCall
    /\ merge = NoMerge
    /\ auth = RequestAuth
    /\ balances = NoBalances
    /\ naming = NoNaming
    /\ order = NoOrder
    /\ digits = NoDigits
    /\ apiData = <<>>
    /\ IdleRun

SaveCall ==
    \E accountName \in SaveNames, startDate \in StartDates, csvContent \in CsvInputs :
        \E saved \in saveTransactionsCSV(fs, clock, accountName, startDate, csvContent) :
            /\ fs' = saved
            /\ lastCall' = [accountName |-> accountName, startDate |-> startDate,
                            csvContent |-> csvContent]
            /\ UNCHANGED <<clock, runVars, merge, auth, balances, naming, order, digits>>

NextSave == SaveCall

SpecSave == InitSave /\ [][NextSave]_vars

\* ------------------------------------------------------------------------
\* mergeCSV alone: one call on any two contents
\* ------------------------------------------------------------------------

InitMerge ==
    /\ clock = Day0
    /\ fs = [d \in AllDirs |-> <<>>]
    /\ lastCall = NoCall
    /\ apiData = <<>>
    /\ IdleRun
    /\ auth = RequestAuth
    /\ balances = NoBalances
    /\ naming = NoNaming
    /\ order = NoOrder
    /\ digits = NoDigits
    /\ \E e \in MergeInputs, n \in MergeInputs :
         merge = [existing |-> e, newContent |-> n, result |-> <<>>, called |-> FALSE]

MergeCall ==
    /\ ~merge.called
    /\ \E merged \in mergeCSV(merge.existing, merge.newContent) :
         merge' = [merge EXCEPT !.result = merged, !.called = TRUE]
    /\ UNCHANGED <<clock, fs, lastCall, runVars, auth, balances, naming, order, digits>>

NextMerge == MergeCall

SpecMerge == InitMerge /\ [][NextMerge]_vars

\* ------------------------------------------------------------------------
\* resolveAuthHeader alone: one call on any captured header and storage
\* ------------------------------------------------------------------------

InitAuth ==
    /\ clock = Day0
    /\ fs = [d \in AllDirs |-> <<>>]
    /\ lastCall = NoCall
    /\ merge = NoMerge
    /\ apiData = <<>>
    /\ IdleRun
    /\ auth \in AuthInputs
    /\ balances = NoBalances
    /\ naming = NoNaming
    /\ order = NoOrder
    /\ digits = NoDigits

ResolveCall ==
    /\ ~auth.resolved
    /\ auth' = Resolved(auth)
    /\ UNCHANGED <<clock, fs, lastCall, runVars, merge, balances, naming, order, digits>>

NextAuth == ResolveCall

SpecAuth == InitAuth /\ [][NextAuth]_vars

\* ------------------------------------------------------------------------
\* getBalances, invoked again and again as the days pass
\* ------------------------------------------------------------------------

\* The days that pass and the invocations made.
MaxDays == 2
MaxInvocations == 3

\* The snapshots of the three days before are there or not.
InitBalances ==
    /\ clock = Day0
    /\ fs = [d \in AllDirs |-> <<>>]
    /\ lastCall = NoCall
    /\ merge = NoMerge
    /\ auth = RequestAuth
    /\ apiData = <<>>
    /\ IdleRun
    /\ \E days \in SUBSET {Day0 - 3, Day0 - 2, Day0 - 1} :
         balances = [NoBalances EXCEPT !.files = { SnapshotFile(day) : day \in days }]
    /\ naming = NoNaming
    /\ order = NoOrder
    /\ digits = NoDigits

\* getBalances, index.ts lines 36-73: the guard; the browser; the login,
\* which gives the API data or throws; the snapshot saved.
GetBalances ==
    /\ balances.invocations < MaxInvocations
    /\ IF hasBalancesForToday(balances.files, clock)
       THEN balances' = [balances EXCEPT !.invocations = @ + 1]
       ELSE \E loggedIn \in BOOLEAN :
              balances' =
                  IF loggedIn
                  THEN [balances EXCEPT !.invocations = @ + 1, !.launches = @ + 1,
                                        !.logins = @ + 1, !.writes = @ + 1,
                                        !.files = saveBalances(@, clock),
                                        !.savedOn = clock]
                  ELSE [balances EXCEPT !.invocations = @ + 1, !.launches = @ + 1,
                                        !.logins = @ + 1]
    /\ UNCHANGED <<clock, fs, lastCall, runVars, merge, auth, naming, order, digits>>

\* Midnight (UTC) passes.
NextDayBegins ==
    /\ clock < Day0 + MaxDays
    /\ clock' = clock + 1
    /\ UNCHANGED <<fs, lastCall, runVars, merge, auth, balances, naming, order, digits>>

NextBalances == GetBalances \/ NextDayBegins

SpecBalances == InitBalances /\ [][NextBalances]_vars

\* ------------------------------------------------------------------------
\* The file name of an archive, made and parsed back
\* ------------------------------------------------------------------------

\* The dates "YYYY-MM-DD": the first and the last year of four digits, the
\* epoch, a year of the archives; every month and day of two digits that a
\* calendar has.
NamedDates == { <<y, m, d>> : y \in {0, 1970, 2022, 9999}, m \in 1..12, d \in 1..31 }

InitNaming ==
    /\ clock = Day0
    /\ fs = [d \in AllDirs |-> <<>>]
    /\ lastCall = NoCall
    /\ merge = NoMerge
    /\ auth = RequestAuth
    /\ balances = NoBalances
    /\ apiData = <<>>
    /\ IdleRun
    /\ order = NoOrder
    /\ digits = NoDigits
    /\ \E startDate \in NamedDates : naming = [NoNaming EXCEPT !.startDate = startDate]

NamingCall ==
    /\ ~naming.called
    /\ naming' = [naming EXCEPT
                    !.filename = getTransactionsFilename(naming.startDate),
                    !.parsed = parseTransactionsFilename(
                                   getTransactionsFilename(naming.startDate)),
                    !.called = TRUE]
    /\ UNCHANGED <<clock, fs, lastCall, runVars, merge, auth, balances, order, digits>>

NextNaming == NamingCall

SpecNaming == InitNaming /\ [][NextNaming]_vars

\* ------------------------------------------------------------------------
\* The storage layer alone: an archive and two exports, saved in the two
\* orders
\* ------------------------------------------------------------------------

\* The archives: the exports that start with a header line.
HeadedExports == { c \in CsvInputs : NonBlank(c) # <<>> }

\* The two exports: a header line alone, rows the archive may hold already,
\* a repeated row, another header and a final newline, a line whose first
\* field is no date.
OrderExports ==
    { <<Header>>, <<Header, RowB, RowA>>, <<Header, RowA, RowA>>,
      <<HeaderNew, RowA, BlankLine>>, <<Header, RowBad, RowA>> }

InitOrder ==
    /\ clock = Day0
    /\ fs = [d \in AllDirs |-> <<>>]
    /\ lastCall = NoCall
    /\ merge = NoMerge
    /\ auth = RequestAuth
    /\ balances = NoBalances
    /\ naming = NoNaming
    /\ digits = NoDigits
    /\ apiData = <<>>
    /\ IdleRun
    /\ \E e \in HeadedExports, n1 \in OrderExports, n2 \in OrderExports :
         order = [NoOrder EXCEPT !.existing = e, !.first = n1, !.second = n2]

\* The archive is saved to twice from the same start, once in each order.
OrderCall ==
    /\ ~order.called
    /\ \E accountName \in SaveNames, s0 \in StartDates, s1 \in StartDates, s2 \in StartDates :
         LET accountDir == getAccountDir(accountName)
             before == [fs EXCEPT ![accountDir] =
                                      InitArchive(s0, order.existing, Day0 - 1)]
         IN  \E first1 \in saveTransactionsCSV(before, clock, accountName, s1, order.first) :
              \E second2 \in saveTransactionsCSV(first1, clock, accountName, s2, order.second) :
               \E second1 \in saveTransactionsCSV(before, clock, accountName, s2, order.second) :
                \E first2 \in saveTransactionsCSV(second1, clock, accountName, s1, order.first) :
                  order' = [order EXCEPT !.oneWay = second2[accountDir],
                                         !.otherWay = first2[accountDir],
                                         !.called = TRUE]
    /\ UNCHANGED <<clock, fs, lastCall, runVars, merge, auth, balances, naming, digits>>

NextOrder == OrderCall

SpecOrder == InitOrder /\ [][NextOrder]_vars

\* ------------------------------------------------------------------------
\* cleanDigitMap alone: one call on the OCR results of the ten buttons
\* ------------------------------------------------------------------------

MaxFaulty == 3

Buttons == 0..9

\* Two keyboards read without a fault: the digits in order, and the layout
\* of the example in the comment of cleanDigitMap.
Keyboards ==
    { [k \in Buttons |-> k],
      [k \in Buttons |-> <<0, 8, 7, 1, 4, 6, 5, 3, 2, 9>>[k + 1]] }

\* What OCR may return in the place of a digit: numbers of several digits
\* (with and without the digit of the button among them), and a digit
\* another button has.
Misreadings == {10, 210, 110011100, 8}

\* The OCR results: a keyboard with at most MaxFaulty buttons misread.
DigitInputs ==
    { [k \in Buttons |-> IF k \in DOMAIN misread THEN misread[k] ELSE keyboard[k]] :
        misread \in UNION { [S -> Misreadings] :
                              S \in { T \in SUBSET Buttons : Cardinality(T) <= MaxFaulty } },
        keyboard \in Keyboards }

InitDigits ==
    /\ clock = Day0
    /\ fs = [d \in AllDirs |-> <<>>]
    /\ lastCall = NoCall
    /\ merge = NoMerge
    /\ auth = RequestAuth
    /\ balances = NoBalances
    /\ naming = NoNaming
    /\ order = NoOrder
    /\ apiData = <<>>
    /\ IdleRun
    /\ \E digitMap \in DigitInputs : digits = [NoDigits EXCEPT !.digitMap = digitMap]

CleanCall ==
    /\ ~digits.called
    /\ digits' = [digits EXCEPT !.cleaned = cleanDigitMap(digits.digitMap),
                                !.called = TRUE]
    /\ UNCHANGED <<clock, fs, lastCall, runVars, merge, auth, balances, naming, order>>

NextDigits == CleanCall

SpecDigits == InitDigits /\ [][NextDigits]_vars

\* ------------------------------------------------------------------------
\* Properties of a run
\* ------------------------------------------------------------------------

\* The accounts the last-download response names.
TargetSet ==
    { extractPfmContractId(operationItems[i]) : i \in 1..Len(operationItems) } \ {Undefined}

\* The resources of an account in a list, by their place in the list.
ResourcesOf(items, pfmId) ==
    { i \in 1..Len(items) : extractHistoryRequestPfmContractId(items[i].identity) = pfmId }

HasWindow(item, now) ==
    /\ item.identity.startDate = getDateDaysAgo(now, maxDaysBack)
    /\ item.identity.endDate = getTodayDate(now)

\* Some resource of the account in the list has the window of the day.
SomeCurrent(items, pfmId, now) ==
    \E i \in ResourcesOf(items, pfmId) : HasWindow(items[i], now)

\* The first resource of the account in the list has the window of the day.
FirstCurrent(items, pfmId, now) ==
    /\ ResourcesOf(items, pfmId) # {}
    /\ HasWindow(items[CHOOSE i \in ResourcesOf(items, pfmId) :
                         \A j \in ResourcesOf(items, pfmId) : i <= j], now)

\* A create-request with the full window was issued for the account.
CreateIssued(pfmId) ==
    \E k \in 1..Len(calls) :
        /\ calls[k].op = "create"
        /\ calls[k].pfm = pfmId
        /\ calls[k].startDate = getDateDaysAgo(clock, maxDaysBack)
        /\ calls[k].endDate = getTodayDate(clock)

NoCalls(op) == \A k \in 1..Len(calls) : calls[k].op # op

\* The run took the create path and left the create loop.
PastCreateLoop ==
    \/ pc \in {"fatal", "waiting", "requery", "build"}
    \/ pc \in {"download", "fetch", "done"} /\ Len(CallsOf("list")) = 2

\* The run took the reuse path.
InReusePath ==
    /\ pc \in {"download", "fetch"} \/ (pc = "done" /\ result = "true")
    /\ Len(CallsOf("list")) = 1

\* C1: if a target account has no retained resource with the window of the
\* day, the run takes the create path and issues a create-request with the
\* window [today - maxDaysBack, today] for every target account, the
\* accounts whose resource is current included; no run reuses for some
\* accounts and recreates for others.
C1_AllOrNothingRecreation ==
    /\ staleTargets # {} =>
         /\ pc = "create" \/ PastCreateLoop
         /\ PastCreateLoop => \A pfmId \in TargetSet : CreateIssued(pfmId)
         /\ pc = "create" =>
              \A i \in 1..(idx - 1) :
                  extractPfmContractId(operationItems[i]) # Undefined
                      => CreateIssued(extractPfmContractId(operationItems[i]))
    /\ \A k \in 1..Len(calls) :
         calls[k].op = "create" => calls[k].pfm \in TargetSet /\ CreateIssued(calls[k].pfm)
    /\ InReusePath => NoCalls("create")

C1_Witness ==
    /\ pc = "done" /\ result = "true"
    /\ TargetSet = {"1", "2"}
    /\ staleTargets = {"2"}
    /\ CreateIssued("1") /\ CreateIssued("2")
    /\ \E k \in 1..Len(calls) : calls[k].op = "save" /\ calls[k].pfm = "1"

\* C2 (as claimed): if every target account has, somewhere in the listed
\* resources, a resource with the window of the day, the run does not take
\* the create path.
C2_ReuseWhenSomeListedCurrent ==
    [][(/\ pc = "decide"
        /\ \A pfmId \in TargetSet : SomeCurrent(historyRequestItems, pfmId, clock))
       => pc' # "create"]_vars

\* C2 (amended): if, for every target account, the first resource of the
\* account in the listed resources has the window of the day, the run takes
\* the reuse path and issues no create-request.
C2_ReuseWhenFirstListedCurrent ==
    /\ [][(/\ pc = "decide"
           /\ \A pfmId \in TargetSet : FirstCurrent(historyRequestItems, pfmId, clock))
          => (pc' = "download" /\ calls' = calls /\ staleTargets' = {})]_vars
    /\ [](InReusePath => NoCalls("create") /\ NoCalls("wait"))

C2_Witness ==
    /\ pc = "done" /\ result = "true"
    /\ TargetSet = {"1", "2"}
    /\ staleTargets = {}
    /\ NoCalls("create")
    /\ Len(CallsOf("list")) = 1
    /\ Len(CallsOf("save")) = 2

\* C3: when no create-request of the create loop succeeds, the run ends with
\* the fatal error right after the loop: no wait, no second list query, no
\* prepare-download, no fetch, and the archive directories are as they were
\* when the run started. A run that goes on after the loop had a
\* create-request that succeeded.
C3_FatalAbort ==
    /\ pc = "fatal" =>
         /\ result = "error"
         /\ \A k \in 1..Len(calls) : calls[k].op = "create" => ~calls[k].ok
         /\ NoCalls("wait") /\ NoCalls("prepare") /\ NoCalls("fetch") /\ NoCalls("save")
         /\ Len(CallsOf("list")) = 1
         /\ fs = fs0
    /\ (PastCreateLoop /\ pc # "fatal") =>
         \E k \in 1..Len(calls) : calls[k].op = "create" /\ calls[k].ok

C3_Witness ==
    /\ pc = "fatal"
    /\ Len(CallsOf("create")) = 2
    /\ TargetSet = {"1", "2"}

\* The account of the list has a request id and an identifier.
Downloadable(account) ==
    account.historyRequestId # NoRequestId /\ account.pfmContractId # Undefined

PrepareIssued(account) ==
    \E k \in 1..Len(calls) :
        /\ calls[k].op = "prepare"
        /\ calls[k].pfm = account.pfmContractId
        /\ calls[k].req = account.historyRequestId

C5_LaterRunNeverCreates ==
    runNo >= 2 => NoCalls("create")

\* C5 (amended): when an earlier invocation of the day saved the export of
\* every account of the login listing, a later invocation of the day is cut
\* short by the guard: it returns false and issues no remote call.
C5_LaterRunAfterFullSave ==
    (runNo >= 2 /\ prevSavedAll) =>
        /\ calls = <<>>
        /\ pc \in {"idle", "done"}
        /\ pc = "done" => result = "false"
        /\ fs = fs0

C5_Witness ==
    /\ runNo = 2
    /\ prevSavedAll
    /\ Len(accountsFromApi) = 2
    /\ pc = "done" /\ result = "false"

\* The names the guard is asked about.
GuardNames == SeqsUpTo({NameA, NameB, AccountSpace("1")}, 2)

\* The account's directory holds an archive file last modified on the day.
HasFreshArchive(fsv, now, accountName) ==
    \E i \in 1..Len(fsv[getAccountDir(accountName)]) :
        LET file == fsv[getAccountDir(accountName)][i]
        IN  /\ parseTransactionsFilename(file.name) # NoMatch
            /\ IsoDate(file.mtime) = IsoDate(now)

\* C6: hasTransactionsForToday is true exactly when every account of
\* accountNames has, in the directory of its sanitized name, an archive file
\* history-from-YYYYMMDD.csv last modified on the current day.
C6_FreshnessGuardContract ==
    \A accountNames \in GuardNames \cup {AccountNames(accountsFromApi)} :
        hasTransactionsForToday(fs, clock, accountNames)
            <=> \A i \in 1..Len(accountNames) : HasFreshArchive(fs, clock, accountNames[i])

C6_Witness ==
    /\ pc = "done" /\ result = "true"
    /\ hasTransactionsForToday(fs, clock, <<NameA, NameB>>)
    /\ ~hasTransactionsForToday(fs0, clock, <<NameA, NameB>>)
    /\ ~hasTransactionsForToday(fs, clock, <<NameA, AccountSpace("1")>>)

\* C7: when the guard is true at the start of downloadTransactions, the run
\* returns false, has issued no remote call at all, and the archive
\* directories are as they were.
C7_GuardGatesEverything ==
    (pc # "idle" /\ hasTransactionsForToday(fs0, clock, AccountNames(accountsFromApi))) =>
        /\ pc = "done"
        /\ result = "false"
        /\ calls = <<>>
        /\ fs = fs0
        /\ lastCall = NoCall

C7_Witness ==
    /\ pc = "done" /\ result = "false"
    /\ runNo = 1
    /\ Len(AccountNames(accountsFromApi)) = 2
    /\ calls = <<>>
    /\ fs = fs0

HasArchive(fsv, dir) == fsv[dir] # <<>>

\* The archive of a directory (its most recently modified file).
Archive(fsv, dir) == fsv[dir][Len(fsv[dir])]

\* The call at place k of the record is for the same account and request
\* as the call at place m.
SameAccount(k, m) == calls[k].pfm = calls[m].pfm /\ calls[k].req = calls[m].req

AccountIds == { accountsWithIds[i].pfmContractId : i \in 1..Len(accountsWithIds) }

PlacesOf(op) == { k \in 1..Len(calls) : calls[k].op = op }

\* C17: in the create path every create-request comes before the wait, the
\* wait before the second list query, and every prepare-download, fetch
\* and save after that query; a fetch comes right after the successful
\* prepare-download of its account, and a save right after its fetch.
C17_CreatePathOrdering ==
    /\ \A c \in PlacesOf("create") :
         /\ \A w \in PlacesOf("wait") : c < w
         /\ \A d \in PlacesOf("prepare") \cup PlacesOf("fetch") \cup PlacesOf("save") :
              /\ c < d
              /\ \E w \in PlacesOf("wait") :
                     \E l \in PlacesOf("list") : c < w /\ w < l /\ l < d
    /\ \A w \in PlacesOf("wait") :
         /\ PlacesOf("create") # {}
         /\ \A l \in PlacesOf("list") : l > w => l = w + 1
    /\ Cardinality(PlacesOf("wait")) <= 1
    /\ Cardinality(PlacesOf("list")) = 2 => PlacesOf("wait") # {}
    /\ (pc \in {"requery", "build"} \/ Cardinality(PlacesOf("list")) = 2)
         => PlacesOf("wait") # {}
    /\ \A f \in PlacesOf("fetch") :
         f > 1 /\ calls[f - 1].op = "prepare" /\ calls[f - 1].ok /\ SameAccount(f, f - 1)
    /\ \A v \in PlacesOf("save") :
         v > 1 /\ calls[v - 1].op = "fetch" /\ calls[v - 1].ok /\ SameAccount(v, v - 1)

C17_Witness ==
    /\ pc = "done" /\ result = "true"
    /\ Cardinality(PlacesOf("create")) = 2
    /\ Cardinality(PlacesOf("wait")) = 1
    /\ Cardinality(PlacesOf("list")) = 2
    /\ Cardinality(PlacesOf("save")) = 2

\* C18: the reuse path is taken exactly when the retained resource of every
\* target account has startDate = today - maxDaysBack and endDate = today;
\* a retained resource whose endDate or startDate is a day off sends the run
\* to the create path, and the resources of a run that reuses have the
\* window of the day.
C18_ExactWindowStaleness ==
    /\ [][pc = "decide" =>
            /\ pc' \in {"download", "create"}
            /\ pc' = "download" <=>
                 \A pfmId \in TargetSet : FirstCurrent(historyRequestItems, pfmId, clock)]_vars
    /\ [](InReusePath =>
            \A i \in 1..Len(accountsWithIds) :
                /\ accountsWithIds[i].startDate = getDateDaysAgo(clock, maxDaysBack)
                /\ accountsWithIds[i].endDate = getTodayDate(clock))

C18_Witness ==
    /\ pc = "create"
    /\ idx = 1
    /\ TargetSet = {"1", "2"}
    /\ staleTargets = {"1", "2"}
    /\ calls = <<MetaCall, ListCall>>

\* C23: downloadTransactions returns true exactly when the export of at
\* least one account was fetched and saved in the run, and false when the
\* guard found the archives up to date.
C23_TrueExactlyWhenDownloaded ==
    pc = "done" =>
        /\ result \in {"true", "false"}
        /\ result = "true" <=> Len(CallsOf("save")) >= 1
        /\ result = "false" =>
              /\ calls = <<>>
              /\ hasTransactionsForToday(fs0, clock, AccountNames(accountsFromApi))

\* C26: every resource a prepare-download call is issued for, in the reuse
\* path and in the create path, has startDate = today - maxDaysBack and
\* endDate = today.
C26_PrepareOnlyForCurrentWindow ==
    \A k \in 1..Len(calls) :
        calls[k].op = "prepare" =>
            /\ calls[k].startDate = getDateDaysAgo(clock, maxDaysBack)
            /\ calls[k].endDate = getTodayDate(clock)

\* The accounts of the login listing.
ListedIds == { accountsFromApi[i].pfmContractId : i \in 1..Len(accountsFromApi) }

\* C27: the target accounts of a run are the accounts of the login listing,
\* whatever lastDownloadHistoryViews lists: each of them, and no other
\* account, gets the reuse test, a create-request in the create path and a
\* place among the accounts to download.
C27_TargetsAreListedAccounts ==
    /\ (pc \in {"decide", "create", "waiting", "requery", "build", "download", "fetch"}
          \/ (pc = "done" /\ result = "true")) => TargetSet = ListedIds
    /\ (PastCreateLoop /\ pc # "fatal") => \A pfmId \in ListedIds : CreateIssued(pfmId)
    /\ \A k \in 1..Len(calls) :
         calls[k].op \in {"create", "prepare", "fetch", "save"} => calls[k].pfm \in ListedIds

\* The first resource of an account in a list.
FirstResource(items, pfmId) ==
    items[CHOOSE i \in ResourcesOf(items, pfmId) : \A j \in ResourcesOf(items, pfmId) : i <= j]

\* The accounts to download are the target accounts with a resource in the
\* list, each with the request id and the window of its first resource.
RetainsFirst(items, accounts) ==
    /\ { accounts[i].pfmContractId : i \in 1..Len(accounts) } =
           { pfmId \in TargetSet : ResourcesOf(items, pfmId) # {} }
    /\ \A i \in 1..Len(accounts) :
         LET first == FirstResource(items, accounts[i].pfmContractId)
         IN  /\ accounts[i].historyRequestId = first.historyRequestId
             /\ accounts[i].startDate = first.identity.startDate
             /\ accounts[i].endDate = first.identity.endDate

\* C28: of the resources a list holds for a target account only the first is
\* retained: it alone decides the reuse test, and its request id is the one
\* of the prepare-download call, for the first list and for the re-queried
\* list alike.
C28_FirstSeenWins ==
    /\ [][/\ pc = "decide" =>
               /\ pc' = "download" <=>
                    \A pfmId \in TargetSet :
                        /\ ResourcesOf(historyRequestItems, pfmId) # {}
                        /\ HasWindow(FirstResource(historyRequestItems, pfmId), clock)
               /\ pc' = "download" => RetainsFirst(historyRequestItems, accountsWithIds')
          /\ pc = "build" => RetainsFirst(updatedItems, accountsWithIds')]_vars
    /\ [](\A k \in 1..Len(calls) :
            calls[k].op = "prepare" =>
                \E i \in 1..Len(accountsWithIds) :
                    /\ accountsWithIds[i].pfmContractId = calls[k].pfm
                    /\ accountsWithIds[i].historyRequestId = calls[k].req)

C28_Witness ==
    /\ pc = "done" /\ result = "true"
    /\ Len(CallsOf("list")) = 2
    /\ \E k \in 1..Len(calls) :
         calls[k].op = "prepare" /\ calls[k].pfm = "1" /\ calls[k].req = 1
           /\ calls[k].endDate # getTodayDate(clock)
    /\ \A k \in 1..Len(calls) : calls[k].op = "prepare" => calls[k].req # 2
    /\ Len(accountsWithIds) = 1

\* C29: the exports of two accounts with distinct contract identifiers are
\* never saved into the same directory, hence never into the same archive
\* file, whatever the names of the accounts.
C29_AccountIsolation ==
    \A k, m \in 1..Len(calls) :
        (calls[k].op = "save" /\ calls[m].op = "save" /\ calls[k].pfm # calls[m].pfm)
            => getAccountDir(calls[k].name) # getAccountDir(calls[m].name)

\* The run is over and the export of every target account was saved.
AllTargetsSaved ==
    /\ pc = "done" /\ result = "true"
    /\ \A pfmId \in TargetSet :
         \E k \in 1..Len(calls) : calls[k].op = "save" /\ calls[k].pfm = pfmId

\* C30: when a run has saved the export of every target account, the guard
\* of the next invocation of the day, made with the same login listing,
\* holds: the directories it inspects are the directories the run wrote.
C30_NextRunShortCircuited ==
    [][(runNo' = runNo + 1 /\ AllTargetsSaved) =>
          /\ hasTransactionsForToday(fs', clock',
                                     AccountNames(extractAccountsFromApiData(apiData')))
          /\ { getAccountDir(accountsFromApi[i].accountName) : i \in 1..Len(accountsFromApi) }
               = { getAccountDir(calls[k].name) : k \in PlacesOf("save") }]_vars

\* No file of the directories was modified on the day of the run before the
\* run started.
StartedBeforeToday ==
    \A d \in AllDirs : \A i \in 1..Len(fs0[d]) : fs0[d][i].mtime < clock

\* C31: when the archives were last modified before today, the guard holds
\* for the accounts of the login listing only if the export of each of
\* them was fetched and saved by the run of the day: an account whose
\* download failed is not taken for fresh.
C31_GuardSoundness ==
    (/\ StartedBeforeToday
     /\ pc # "idle"
     /\ hasTransactionsForToday(fs, clock, AccountNames(accountsFromApi)))
        => \A i \in 1..Len(accountsFromApi) :
             \E k \in 1..Len(calls) :
                 /\ calls[k].op = "save"
                 /\ calls[k].pfm = accountsFromApi[i].pfmContractId

\* The items of a list that are resources of a target account.
OfTargets(items) ==
    SelectSeq(items, LAMBDA item :
                extractHistoryRequestPfmContractId(item.identity) \in TargetSet)

\* The request ids of the resources of non-target accounts in a list.
ForeignIds(items) ==
    { items[i].historyRequestId :
        i \in { j \in 1..Len(items) :
                  extractHistoryRequestPfmContractId(items[j].identity) \notin TargetSet } }

\* C34: whatever the resource list holds, the reuse decision is the one the
\* list gives once the resources of non-target accounts are taken out of
\* it, no resource of a non-target account is among the accounts to
\* download, and no prepare-download, fetch or save is for a non-target
\* account.
C34_ForeignResourcesIgnored ==
    /\ [][/\ pc = "decide" =>
               /\ pc' = "download" <=>
                    \A pfmId \in TargetSet :
                        FirstCurrent(OfTargets(historyRequestItems), pfmId, clock)
               /\ \A i \in 1..Len(accountsWithIds') :
                    accountsWithIds'[i].historyRequestId
                        \notin ForeignIds(historyRequestItems)
          /\ pc = "build" =>
               \A i \in 1..Len(accountsWithIds') :
                    accountsWithIds'[i].historyRequestId \notin ForeignIds(updatedItems)]_vars
    /\ [](/\ \A i \in 1..Len(accountsWithIds) :
               accountsWithIds[i].pfmContractId \in TargetSet
          /\ \A k \in 1..Len(calls) :
               calls[k].op \in {"prepare", "fetch", "save"} => calls[k].pfm \in TargetSet)

\* Account 1 is the only target and the list held a resource of account 2
\* before the one of account 1: the run reused the second resource.
C34_Witness ==
    /\ pc = "done" /\ result = "true"
    /\ TargetSet = {"1"}
    /\ Len(CallsOf("list")) = 1
    /\ \E k \in 1..Len(calls) :
         calls[k].op = "prepare" /\ calls[k].pfm = "1" /\ calls[k].req = 2
    /\ \A k \in 1..Len(calls) : calls[k].op = "prepare" => calls[k].pfm = "1"

\* C35: when lastDownloadHistoryViews names no account with a contract
\* identifier, the run takes the reuse path with no account to download:
\* it issues no create-request, wait, re-query, prepare-download, fetch or
\* save, does not raise the fatal error, and returns true.
C35_EmptyTargetSet ==
    /\ [][(TargetSet' = {} /\ pc' # pc) =>
             /\ pc = "decide" => (pc' = "download" /\ accountsWithIds' = <<>>)
             /\ pc = "download" => (pc' = "done" /\ result' = "true")]_vars
    /\ [](TargetSet = {} =>
             /\ pc \notin {"create", "fatal", "waiting", "requery", "build", "fetch"}
             /\ result # "error"
             /\ \A k \in 1..Len(calls) : calls[k].op \in {"meta", "list"}
             /\ Len(CallsOf("list")) <= 1)

\* The metadata held one item without identifier, the list two resources:
\* the run has returned true after its two reads.
C35_Witness ==
    /\ pc = "done" /\ result = "true"
    /\ operationItems = <<MetaNone>>
    /\ TargetSet = {}
    /\ Len(calls) = 2
    /\ calls[2].op = "list"

\* The number of calls of an operation for an account in the record.
CallCount(op, pfmId) ==
    Cardinality({ k \in 1..Len(calls) : calls[k].op = op /\ calls[k].pfm = pfmId })

\* C36: when every call returns, a run that passes the guard ends, by
\* returning or by the fatal error.  The resource list is read once before
\* the decision, once more after the wait of the create path and never
\* again; every create-request is a turn of the create loop, which moves to
\* the next account whatever the outcome; an account gets at most one
\* prepare-download and at most one fetch; the two loops have a step for
\* every value of their index.
C36_BoundedRun ==
    /\ (pc = "lastDownload") ~> (pc \in {"done", "fatal"})
    /\ [][/\ (Len(CallsOf("create"))' > Len(CallsOf("create"))) =>
               /\ Len(CallsOf("create"))' = Len(CallsOf("create")) + 1
               /\ idx' = idx + 1
          /\ (Len(CallsOf("list"))' > Len(CallsOf("list"))) =>
               pc \in {"historyRequests", "requery"}]_vars
    /\ [](/\ pc = "create" => ENABLED (CreateRequest \/ SkipCreate \/ CreateLoopEnd)
          /\ pc = "download" => ENABLED (SkipAccount \/ PrepareDownload \/ Finish))
    /\ [](/\ Len(CallsOf("list")) <= 2
          /\ NoCalls("wait") => Len(CallsOf("list")) <= 1
          /\ (~NoCalls("wait") /\ pc \in {"build", "download", "fetch", "done"})
                => Len(CallsOf("list")) = 2
          /\ (~NoCalls("create") /\ pc \in {"build", "download", "fetch", "done"})
                => Len(CallsOf("wait")) = 1
          /\ Len(CallsOf("create")) <= Len(operationItems)
          /\ \A pfmId \in PfmIds :
               /\ CallCount("prepare", pfmId) <= 1
               /\ CallCount("fetch", pfmId) <= CallCount("prepare", pfmId))

\* A run of the create path has ended after a create-request, a
\* prepare-download and a fetch that failed, each issued once.
C36_Witness ==
    /\ pc = "done" /\ result = "true"
    /\ Len(CallsOf("list")) = 2
    /\ \E k \in 1..Len(calls) : calls[k].op = "create" /\ ~calls[k].ok
    /\ \E k \in 1..Len(calls) : calls[k].op = "prepare" /\ ~calls[k].ok
    /\ \E k \in 1..Len(calls) : calls[k].op = "fetch" /\ ~calls[k].ok

\* ------------------------------------------------------------------------
\* Properties of the storage layer
\* ------------------------------------------------------------------------

\* The data rows of a content: its non-blank lines after the first.
DataRows(content) ==
    LET lines == NonBlank(content)
    IN  { lines[i] : i \in 2..Len(lines) }

\* The data rows an account directory holds.
ArchiveRows(fsv, dir) ==
    UNION { DataRows(fsv[dir][i].content) : i \in 1..Len(fsv[dir]) }

\* The anchor date the name of the archive of a directory carries.
Anchor(fsv, dir) == parseTransactionsFilename(Archive(fsv, dir).name)

Earlier(d1, d2) == DateTime(d1[1], d1[2], d1[3]) < DateTime(d2[1], d2[2], d2[3])

\* A step that is a saveTransactionsCSV call; lastCall' holds its arguments.
SaveStep == <<fs, lastCall>>' # <<fs, lastCall>>

CallDir(call) == getAccountDir(call.accountName)

\* C8: a saveTransactionsCSV call never discards a data row an account
\* directory held before the call: the row set of every archive only grows.
C8_MergeKeepsRows ==
    [][\A d \in AllDirs : ArchiveRows(fs, d) \subseteq ArchiveRows(fs', d)]_vars

\* A merge took place: the archive of the last call holds the rows of the
\* call's export and a row that the export does not have.
C8_Witness ==
    /\ lastCall # NoCall
    /\ DataRows(lastCall.csvContent) # {}
    /\ DataRows(lastCall.csvContent) \subseteq ArchiveRows(fs, CallDir(lastCall))
    /\ ArchiveRows(fs, CallDir(lastCall)) \ DataRows(lastCall.csvContent) # {}

\* C9 (as claimed): when an archive anchored at A exists and an export whose
\* window starts at S, earlier than A, is saved, the file written is anchored
\* at S and holds the rows of both.
C9_AnchorMovesToEarlierStart ==
    [][LET d == CallDir(lastCall')
       IN  (/\ SaveStep
            /\ HasArchive(fs, d)
            /\ Earlier(lastCall'.startDate, Anchor(fs, d)))
           => (/\ Anchor(fs', d) = lastCall'.startDate
               /\ ArchiveRows(fs', d) =
                    ArchiveRows(fs, d) \cup DataRows(lastCall'.csvContent))]_vars

C11_AnchorNeverLater ==
    [][\A d \in AllDirs :
          HasArchive(fs, d) =>
              /\ HasArchive(fs', d)
              /\ ~Earlier(Anchor(fs, d), Anchor(fs', d))]_vars

C11_Witness ==
    /\ lastCall # NoCall
    /\ HasArchive(fs, CallDir(lastCall))
    /\ Earlier(Anchor(fs, CallDir(lastCall)), lastCall.startDate)
    /\ DataRows(lastCall.csvContent) # {}
    /\ DataRows(lastCall.csvContent) \subseteq ArchiveRows(fs, CallDir(lastCall))
    /\ Archive(fs, CallDir(lastCall)).mtime = clock

\* C20: when the account has no archive file, or an archive file with no
\* non-blank line, the file saveTransactionsCSV writes holds the new
\* content as it was given: same lines, same order, blank and repeated
\* lines included.
C20_FirstContentVerbatim ==
    [][LET d == CallDir(lastCall')
       IN  (/\ SaveStep
            /\ \/ ~HasArchive(fs, d)
               \/ NonBlank(Archive(fs, d).content) = <<>>)
           => (/\ HasArchive(fs', d)
               /\ Archive(fs', d).content = lastCall'.csvContent)]_vars

C20_Witness ==
    /\ lastCall # NoCall
    /\ HasArchive(fs, CallDir(lastCall))
    /\ lastCall.csvContent = <<HeaderNew, RowA, BlankLine>>
    /\ Archive(fs, CallDir(lastCall)).content = lastCall.csvContent

\* ------------------------------------------------------------------------
\* Properties of mergeCSV
\* ------------------------------------------------------------------------

\* The lines of a content after its first line, blank lines left out, one
\* after the other.
DataLines(content) ==
    IF NonBlank(content) = <<>> THEN <<>> ELSE Tail(NonBlank(content))

\* Both contents have a line that is not blank.
BothNonEmpty == NonBlank(merge.existing) # <<>> /\ NonBlank(merge.newContent) # <<>>

NoRepeatedLine(lines) ==
    \A i, j \in 1..Len(lines) : i # j => lines[i] # lines[j]

Parsable(line) == parseFrenchDate(line.date) # NaN

SomeUnparsable(content) ==
    \E i \in 1..Len(DataLines(content)) : ~Parsable(DataLines(content)[i])

\* C12: mergeCSV(X, X), for a content X with a header line, returns a
\* content whose data rows are, as a set, the data rows of X, each of them
\* once.
C12_MergeIdempotence ==
    (/\ merge.called
     /\ merge.existing = merge.newContent
     /\ NonBlank(merge.existing) # <<>>) =>
        /\ DataRows(merge.result) = DataRows(merge.existing)
        /\ NoRepeatedLine(DataLines(merge.result))

C12_Witness ==
    /\ merge.called
    /\ merge.existing = merge.newContent
    /\ DataLines(merge.existing) = <<RowB, RowB>>
    /\ DataLines(merge.result) = <<RowB>>

\* C13: when both contents are non-empty, mergeCSV returns the header line
\* of the existing content followed by the lines that are data lines of one
\* of the contents, each distinct line once, and nothing else.
C13_HeaderAndUnion ==
    (merge.called /\ BothNonEmpty) =>
        /\ merge.result # <<>>
        /\ merge.result[1] = NonBlank(merge.existing)[1]
        /\ { merge.result[i] : i \in 2..Len(merge.result) }
             = DataRows(merge.existing) \cup DataRows(merge.newContent)
        /\ NoRepeatedLine(Tail(merge.result))

C13_Witness ==
    /\ merge.called
    /\ BothNonEmpty
    /\ NonBlank(merge.existing)[1] # NonBlank(merge.newContent)[1]
    /\ DataRows(merge.existing) \cap DataRows(merge.newContent) # {}
    /\ DataRows(merge.existing) \ DataRows(merge.newContent) # {}
    /\ DataRows(merge.newContent) \ DataRows(merge.existing) # {}
    /\ merge.result[1] = Header

\* Two data rows of the result that follow each other and both have a
\* date are in the order of the dates, the most recent first.
AdjacentInOrder(content) ==
    \A i \in 2..(Len(content) - 1) :
        (Parsable(content[i]) /\ Parsable(content[i + 1]))
            => parseFrenchDate(content[i].date) >= parseFrenchDate(content[i + 1].date)

\* C14 (as claimed): in the result of a merge of two non-empty contents, any
\* two adjacent data rows with parsable dates are in descending order of
\* date.
C14_AdjacentParsableRowsSorted ==
    (merge.called /\ BothNonEmpty) => AdjacentInOrder(merge.result)

\* C14 (amended): in the result of a merge of two non-empty contents whose
\* data rows all have a parsable date, the data rows are in descending
\* order of date.
C14_SortedWhenAllParsable ==
    (/\ merge.called
     /\ BothNonEmpty
     /\ ~SomeUnparsable(merge.existing)
     /\ ~SomeUnparsable(merge.newContent)) =>
        /\ AdjacentInOrder(merge.result)
        /\ \A i \in 2..Len(merge.result) : Parsable(merge.result[i])

C14_Witness ==
    /\ merge.called
    /\ BothNonEmpty
    /\ ~SomeUnparsable(merge.existing)
    /\ ~SomeUnparsable(merge.newContent)
    /\ DataLines(merge.existing) = <<RowB, RowA>>
    /\ DataLines(merge.newContent) = <<RowC, RowB>>
    /\ Tail(merge.result) = <<RowA, RowB, RowC>>

\* C19: when a data row has a first field that is no date, mergeCSV still
\* returns, and what it returns is the header line of the existing content
\* and every distinct data row of the two contents once.
C19_UnparsableDatesDoNotStopMerge ==
    (/\ BothNonEmpty
     /\ SomeUnparsable(merge.existing) \/ SomeUnparsable(merge.newContent)) =>
        /\ ~merge.called => mergeCSV(merge.existing, merge.newContent) # {}
        /\ merge.called =>
             /\ merge.result[1] = NonBlank(merge.existing)[1]
             /\ { merge.result[i] : i \in 2..Len(merge.result) }
                  = DataRows(merge.existing) \cup DataRows(merge.newContent)
             /\ Len(merge.result)
                  = 1 + Cardinality(DataRows(merge.existing) \cup DataRows(merge.newContent))

C19_Witness ==
    /\ merge.called
    /\ BothNonEmpty
    /\ SomeUnparsable(merge.newContent)
    /\ ~SomeUnparsable(merge.existing)
    /\ Len(merge.result) = 4
    /\ merge.result[2] = RowBad

\* ------------------------------------------------------------------------
\* Properties of the archive over several saves
\* ------------------------------------------------------------------------

\* C32: an account directory with no file, or with one archive file, holds
\* exactly one archive file after every saveTransactionsCSV call for the
\* account, whatever the window start passed: started from an empty
\* directory, every export goes to the same file.
C32_SingleArchive ==
    /\ [][LET d == CallDir(lastCall')
          IN  (SaveStep /\ Len(fs[d]) <= 1) => Len(fs'[d]) = 1]_vars
    /\ [](\A d \in AllDirs : Len(fs[d]) <= 1)

\* The directory started empty (no row of an archive of before), and at
\* least two calls with different window starts have written to it.
C32_Witness ==
    /\ lastCall # NoCall
    /\ Len(fs[CallDir(lastCall)]) = 1
    /\ Anchor(fs, CallDir(lastCall)) # lastCall.startDate
    /\ ArchiveRows(fs, CallDir(lastCall)) = {RowA}

\* C33 as claimed: after every saveTransactionsCSV call, the first write
\* for an account included, no two data rows of the archive file have the
\* same text.
C33_RowsUniqueAfterEverySave ==
    lastCall # NoCall
        => NoRepeatedLine(DataLines(Archive(fs, CallDir(lastCall)).content))

\* C33: after a saveTransactionsCSV call that finds an archive file with a
\* non-blank line and is given an export with a non-blank line, no two
\* data rows of the archive file have the same text.
C33_MergedRowsUnique ==
    [][\A d \in AllDirs :
          (/\ SaveStep
           /\ HasArchive(fs, d)
           /\ NonBlank(Archive(fs, d).content) # <<>>
           /\ NonBlank(lastCall'.csvContent) # <<>>
           /\ d = CallDir(lastCall'))
          => NoRepeatedLine(DataLines(Archive(fs', d).content))]_vars

\* An export with a repeated row has been merged into an archive that held
\* another row.
C33_Witness ==
    /\ lastCall # NoCall
    /\ lastCall.csvContent = <<Header, RowA, RowA>>
    /\ DataLines(Archive(fs, CallDir(lastCall)).content) = <<RowA, RowB>>

\* The first non-blank line of a content.
HeaderOf(content) == NonBlank(content)[1]

\* C37: for an archive with a header line and two exports that each start
\* with a header line, saving the first then the second and saving the
\* second then the first leave one archive file of the same name, with the
\* same header line and the same set of data rows.
C37_OrderIndependence ==
    order.called =>
        /\ Len(order.oneWay) = 1 /\ Len(order.otherWay) = 1
        /\ order.oneWay[1].name = order.otherWay[1].name
        /\ HeaderOf(order.oneWay[1].content) = HeaderOf(order.otherWay[1].content)
        /\ HeaderOf(order.oneWay[1].content) = HeaderOf(order.existing)
        /\ DataRows(order.oneWay[1].content) = DataRows(order.otherWay[1].content)
        /\ DataRows(order.oneWay[1].content) =
               DataRows(order.existing) \cup DataRows(order.first)
                   \cup DataRows(order.second)

\* The two exports have different headers and different rows.
C37_Witness ==
    /\ order.called
    /\ order.existing = <<Header, RowB>>
    /\ order.first = <<HeaderNew, RowA, BlankLine>>
    /\ order.second = <<Header, RowBad, RowA>>
    /\ DataRows(order.oneWay[1].content) = {RowA, RowB, RowBad}
    /\ order.oneWay[1].content # order.otherWay[1].content

\* ------------------------------------------------------------------------
\* Properties of resolveAuthHeader
\* ------------------------------------------------------------------------

\* The header observed on a request, handed to resolveAuthHeader.
Observed == IF auth.request # "" THEN auth.request ELSE auth.captured

\* The places of the storage whose entry passes the bearer test, the JSON
\* test and the key test.
BearerPlaces == { i \in 1..Len(auth.entries) : BearerRule(auth.entries[i]).found }

JsonPlaces == { i \in 1..Len(auth.entries) : JsonRule(auth.entries[i]).found }

KeyPlaces == { i \in 1..Len(auth.entries) : KeyRule(auth.entries[i]).found }

First(places) == CHOOSE i \in places : \A j \in places : i <= j

\* C21 as stated: the observed header if there is one; otherwise the first
\* bearer token of the storage; if no entry holds one, the first long token
\* field of a JSON object; if no entry holds one either, the first long
\* value under a token-like key; otherwise no header.
C21_HighestRuleWinsOverStorage ==
    auth.resolved =>
        auth.header =
            IF Observed # "" THEN Observed
            ELSE IF BearerPlaces # {}
                 THEN buildAuthorizationHeader(auth.entries[First(BearerPlaces)].value.bearerMatch)
            ELSE IF JsonPlaces # {}
                 THEN buildAuthorizationHeader(JsonRule(auth.entries[First(JsonPlaces)]).token)
            ELSE IF KeyPlaces # {}
                 THEN buildAuthorizationHeader(auth.entries[First(KeyPlaces)].value.text)
            ELSE ""

\* The places whose entry passes one of the tests of the code.
MatchPlaces == { i \in 1..Len(auth.entries) : TokenOfEntry(auth.entries[i]).found }

\* C21, amended: the observed header is used as it is, whatever the storage
\* holds; otherwise the first entry, in storage order, that passes one of the
\* tests decides, and within that entry the bearer test comes before the
\* JSON test (on the first non-empty token field) and the JSON test before
\* the key test; without such an entry the header is empty.
C21_FirstMatchingEntryWins ==
    auth.resolved =>
        /\ Observed # "" => (auth.header = Observed /\ auth.source = "request")
        /\ (Observed = "" /\ MatchPlaces = {}) => (auth.header = "" /\ auth.source = "none")
        /\ (Observed = "" /\ MatchPlaces # {}) =>
              LET entry == auth.entries[First(MatchPlaces)]
                  token == IF entry.value.bearerMatch # "" THEN entry.value.bearerMatch
                           ELSE IF JsonRule(entry).found THEN JsonRule(entry).token
                           ELSE entry.value.text
              IN  /\ auth.header = IF token \in BearerTexts THEN token ELSE "Bearer " \o token
                  /\ auth.source = "storage:" \o entry.key.text

C21_Witness ==
    /\ auth.resolved
    /\ Observed = ""
    /\ auth.entries = <<EntryNamed, EntryBearer>>
    /\ auth.header = "Bearer rawstoredtoken"
    /\ auth.source = "storage:authToken"

\* The calls the run makes itself (the first two are the browser's).
OwnCalls ==
    SelectSeq(SubSeq(calls, 3, Len(calls)),
              LAMBDA c : c.op \in {"create", "list", "prepare", "fetch"})

\* C22: when no header was observed and no storage entry passes a test, the
\* resolved header is empty, the run goes on past the resolution, and each
\* of its own calls (create, list, prepare, fetch) is made, without an
\* Authorization header.
C22_SoftAuthFailure ==
    (auth.resolved /\ Observed = "" /\ MatchPlaces = {}) =>
        /\ auth.header = "" /\ auth.source = "none"
        /\ pc # "lastDownload"
        /\ Len(calls) >= 1 /\ calls[1].op = "meta"
        /\ Len(auth.sent) = Len(OwnCalls)
        /\ \A k \in 1..Len(auth.sent) :
             /\ auth.sent[k].op = OwnCalls[k].op
             /\ auth.sent[k].headers = {}

C22_Witness ==
    /\ auth.resolved /\ Observed = "" /\ MatchPlaces = {}
    /\ pc = "done" /\ result = "true"
    /\ { auth.sent[k].op : k \in 1..Len(auth.sent) } = {"create", "list", "prepare", "fetch"}
    /\ \A k \in 1..Len(auth.sent) : auth.sent[k].headers = {}
    /\ downloadedCount = 1

\* ------------------------------------------------------------------------
\* Properties of getBalances
\* ------------------------------------------------------------------------

\* C24: once getBalances has saved the snapshot of a day, every later
\* getBalances invocation of that day launches no browser, does not log in
\* and writes no file.
C24_BalancesOncePerDay ==
    [][(balances.savedOn = clock /\ balances'.invocations # balances.invocations) =>
          /\ balances'.launches = balances.launches
          /\ balances'.logins = balances.logins
          /\ balances'.writes = balances.writes
          /\ balances'.files = balances.files]_vars

C24_Witness ==
    /\ balances.savedOn = clock
    /\ clock = Day0 + 1
    /\ balances.invocations = 3
    /\ balances.launches = 1
    /\ balances.writes = 1
    /\ Cardinality(balances.files) >= 2

\* ------------------------------------------------------------------------
\* Properties of the archive file names
\* ------------------------------------------------------------------------

\* C25: the file name made of a date "YYYY-MM-DD" is "history-from-", the
\* eight digits of the date without separator and ".csv", and
\* parseTransactionsFilename gives the date back.
C25_FilenameRoundTrip ==
    naming.called =>
        /\ naming.parsed = naming.startDate
        /\ Len(naming.filename) = 3
        /\ naming.filename[1] = "history-from-" /\ naming.filename[3] = ".csv"
        /\ naming.filename[2] \in 0..99999999
        /\ naming.filename[2] \div 10000 = naming.startDate[1]
        /\ (naming.filename[2] \div 100) % 100 = naming.startDate[2]
        /\ naming.filename[2] % 100 = naming.startDate[3]

C25_Witness ==
    /\ naming.called
    /\ naming.startDate = <<2022, 1, 19>>
    /\ naming.filename = <<"history-from-", 20220119, ".csv">>
    /\ naming.parsed = <<2022, 1, 19>>

\* ------------------------------------------------------------------------
\* Properties of cleanDigitMap
\* ------------------------------------------------------------------------

\* The buttons of a map whose entry is a digit.
ValidButtons(digitMap) == { k \in DOMAIN digitMap : digitMap[k] \in 0..9 }

\* C38: for the OCR results of the ten buttons, cleanDigitMap returns a map
\* over the same buttons in which every entry is a digit 0-9: an entry that
\* was a digit is unchanged, and an entry that was not is a digit that no
\* valid entry holds; no entry is left at -1.
C38_CleanDigitMap ==
    digits.called =>
        /\ DOMAIN digits.cleaned = DOMAIN digits.digitMap
        /\ \A k \in DOMAIN digits.cleaned :
             /\ digits.cleaned[k] \in 0..9
             /\ digits.cleaned[k] # Unresolved
             /\ k \in ValidButtons(digits.digitMap)
                  => digits.cleaned[k] = digits.digitMap[k]
             /\ k \notin ValidButtons(digits.digitMap)
                  => digits.cleaned[k] \notin
                       { digits.digitMap[j] : j \in ValidButtons(digits.digitMap) }

\* Button 7 was read as 210 and 7 is the missing digit: no candidate
\* matches, the fallback loop gives the button its digit.
C38_Witness ==
    /\ digits.called
    /\ digits.digitMap[7] = 210
    /\ \A k \in Buttons \ {7} : digits.digitMap[k] = k
    /\ digits.cleaned[7] = 7

====
